---- MODULE Spec2Model ----
(***************************************************************************)
(* pandas-to-postgres: the copy sequence of one job (drop constraints,     *)
(* truncate, bulk copy, recreate constraints, analyze) against one         *)
(* PostgreSQL connection, and the hdf_to_postgres orchestrator that runs   *)
(* copy_worker per job, either in the calling process or in a              *)
(* multiprocessing Pool.                                                   *)
(*                                                                         *)
(* Python is modelled by what it executes: a call of a method the class    *)
(* does not define raises AttributeError, a call with a keyword the        *)
(* callee does not declare raises TypeError.  utilities.get_logger is      *)
(* imported by _base_copy.py and hdf_to_postgres.py and is not defined in  *)
(* the sources; it only builds a logger and is left out of the state.      *)
(***************************************************************************)
EXTENDS Integers, Sequences, FiniteSets, TLC

\* ------------------------------------------------------------------ bounds
MaxRows == 3
MaxKeys == 2
MaxChunk == 2
MaxFks == 1
MaxJobs == 2
MaxProcs == 2

\* ------------------------------------------------------------- vocabulary
BaseClasses == {"HDFTableCopy", "SmallHDFTableCopy", "BigHDFTableCopy"}
Classes == BaseClasses \cup {"DataFrameCopy"}

NoExc == "none"

\* An exception raised by a copy_worker call: its type and the job it is of.
Error(type, j) == [type |-> type, job |-> j]
NoError == Error("none", 0)

Min(a, b) == IF a < b THEN a ELSE b
Max(a, b) == IF a > b THEN a ELSE b

\* The rows the destination table holds before the job: none, or one row
\* that no source key contains.
OldRow == <<0, 1>>
PrevContents == {<< >>, <<OldRow>>}

VARIABLES
    \* ---- one copy object and the connection it was given
    job,        \* fields of the copy object
    src,        \* archive: row count of every key
    cols,       \* archive: column list of the frame of every key
    meta,       \* archive: storer attrs of every key, and the HDFMetadata
                \* object built from them
    prev,       \* committed rows of the table when copy() was called
    db,         \* committed state of the destination table
    conn,       \* the connection's open transaction, if any
    pc,         \* position of copy()
    exc,        \* exception in flight / raised by copy()
    xfer,       \* locals of hdf_to_pg / of the chunk loop, and the record
                \* of what was read from the archive and handed to COPY
    log,        \* statements issued on the connection, in order
    \* ---- hdf_to_postgres
    processes,  \* the processes argument
    tables,     \* list built by create_hdf_table_objects
    opc,        \* position of hdf_to_postgres
    wpc,        \* per job: position of its copy_worker call
    jexc,       \* per job: exception its copy_worker call raised
    ran_in,     \* per job: process that ran it
    jconn,      \* per job: connection its copy_worker call opened
    nconn,      \* connections opened so far
    openc,      \* connections currently open
    args,       \* the keys and sql_to_hdf arguments
    taskq,      \* jobs not yet started: the loop's rest / the Pool's task queue
    wjob,       \* Pool: per worker process, the task it runs
    outq,       \* Pool: results not yet handled
    result,     \* the MapResult of starmap_async
    reported,   \* jobs in the order their results were handled
    surfaced,   \* exception hdf_to_postgres raised
    calls,      \* per job: number of copy_worker calls made for it
    wrest,      \* Pool: per worker process, the jobs left of its task
    wloc        \* per job: locals of its copy_worker call

cvars == <<job, src, cols, meta, prev, db, conn, pc, exc, xfer, log>>
ovars == <<processes, tables, opc, wpc, jexc, ran_in, jconn, nconn, openc,
           args, taskq, wjob, outq, result, reported, surfaced, calls, wrest,
           wloc>>
vars == <<job, src, cols, meta, prev, db, conn, pc, exc, xfer, log,
          processes, tables, opc, wpc, jexc, ran_in, jconn, nconn, openc,
          args, taskq, wjob, outq, result, reported, surfaced, calls, wrest,
           wloc>>

\* ------------------------------------------------------------ the archive
Keys == 1..MaxKeys

\* Rows of key k, in source order.
KeyRows(k) == [i \in 1..src[k] |-> <<k, i>>]

\* pd.read_hdf(file, key=k, start=start, stop=stop): rows [start, stop).
read_hdf(k, start, stop) ==
    SubSeq(KeyRows(k), start + 1, Min(stop, src[k]))

\* Mutant of n_chunks: the partial last chunk is forgotten.
n_chunks_floor(nrow, chunksize) == Max(nrow \div chunksize, 1)

\* utilities.df_generator: the chunks it yields, in order.
n_chunks(nrow, chunksize) ==
    IF nrow % chunksize = 0
    THEN Max(nrow \div chunksize, 1)
    ELSE (nrow \div chunksize) + 1

\* Mutant of df_generator: the offset advances by one row less than the
\* chunk size.
df_generator_short_step(df, chunksize) ==
    [i \in 1..n_chunks(Len(df), chunksize) |->
        SubSeq(df, (i - 1) * (chunksize - 1) + 1,
                   Min((i - 1) * (chunksize - 1) + chunksize, Len(df)))]

df_generator(df, chunksize) ==
    [i \in 1..n_chunks(Len(df), chunksize) |->
        SubSeq(df, (i - 1) * chunksize + 1, Min(i * chunksize, Len(df)))]

\* Keywords df_generator declares; hdf_to_pg passes logger=.
DfGeneratorParams == {"df", "chunksize"}
GeneratorCallOk(kw) == kw \subseteq DfGeneratorParams

\* Keywords of the call the class makes to df_generator.
GeneratorKeywords(cls) ==
    IF cls = "DataFrameCopy" THEN {} ELSE {"logger"}

\* utilities.create_file_object: df.to_csv writes a header line of column
\* names, then one line per row; the stream is rewound to its start.
\* Column lists a frame can have.
ColumnLists == {1, 2}

\* The header line names the columns of the frame that is being written.
HeaderLine == <<0, 0, xfer.columns>>
create_file_object(df) == <<HeaderLine>> \o df

\* cursor.copy_expert("COPY ... WITH CSV [HEADER] FREEZE", file): the lines
\* PostgreSQL stores as rows, reading the stream from its current position.
copy_expert(header_option, stream) ==
    IF header_option THEN Tail(stream) ELSE stream

\* Mutant of copy_from_file: BaseCopy leaves the header line in the stream.
copy_from_file_at_start(cls, fo) ==
    IF cls = "DataFrameCopy"
    THEN copy_expert(TRUE, fo)
    ELSE copy_expert(FALSE, fo)

\* BaseCopy.copy_from_file reads the header line off the stream and names
\* the columns in the statement; DataFrameCopy.copy_from_file leaves the
\* stream at its start and issues COPY ... CSV HEADER.
copy_from_file(cls, fo) ==
    IF cls = "DataFrameCopy"
    THEN copy_expert(TRUE, fo)
    ELSE copy_expert(FALSE, Tail(fo))

\* Mutant of CopyColumns: the list of the first call is kept for the later
\* calls.
CopyColumnsOfFirstCall(cls, fo) ==
    IF xfer.lists = << >> THEN Head(fo)[3] ELSE xfer.lists[1]

\* The column list named in the COPY statement: the header line read off
\* the stream (BaseCopy), or self.columns, set from the frame in __init__
\* (DataFrameCopy).
CopyColumns(cls, fo) ==
    IF cls = "DataFrameCopy" THEN job.columns ELSE Head(fo)[3]

\* BigHDFTableCopy.hdf_to_pg: number of windows of a key.
n_windows(nrows, hdf_chunksize) ==
    IF nrows % hdf_chunksize # 0
    THEN (nrows \div hdf_chunksize) + 1
    ELSE nrows \div hdf_chunksize

\* A keyword dict is a set of <<name, value>> pairs with distinct names.
Names(d) == {p[1] : p \in d}

\* d[name] = value
SetItem(d, name, value) == {p \in d : p[1] # name} \cup {<<name, value>>}

\* The loop of BaseCopy.data_formatting: df = f(df, copy_obj=self, **kwargs)
\* for each f. n counts the hooks whose body was entered.
\* utilities.cast_pandas(df, sql_table) declares no copy_obj keyword, and a
\* kwargs dict that holds copy_obj names that keyword twice: the call
\* raises TypeError before the body runs. A caller's hook returns the batch
\* or raises.
RECURSIVE HookOutcomes(_, _)
HookOutcomes(functions, kwargs) ==
    IF functions = << >> THEN {[exc |-> NoExc, n |-> 0]}
    ELSE IF Head(functions) = "cast_pandas" \/ "copy_obj" \in Names(kwargs)
    THEN {[exc |-> "TypeError", n |-> 0]}
    ELSE {[exc |-> "HookError", n |-> 1]} \cup
         {[exc |-> o.exc, n |-> o.n + 1] :
              o \in HookOutcomes(Tail(functions), kwargs)}

\* self.data_formatting(df, functions=data_formatters, **kwargs): a kwargs
\* dict that holds functions names that parameter twice (TypeError).
FormatOutcomes(functions, kwargs) ==
    IF "functions" \in Names(kwargs)
    THEN {[exc |-> "TypeError", n |-> 0]}
    ELSE HookOutcomes(functions, kwargs)

\* The i-th call of the loop: the hook, the hooks the batch has been
\* through, the read the batch came from, and the keywords.
HookCall(functions, i, kwargs) ==
    [f |-> functions[i], df |-> SubSeq(functions, 1, i - 1),
     batch |-> Len(xfer.reads), copy_obj |-> TRUE, kwargs |-> kwargs]

FormatterLists == {<< >>, <<"cast_pandas">>, <<"hook">>}

\* ------------------------------------------------------- the copy object
\* hdf_tables is None, or the keys 1..n in iteration order.
TableChoices ==
    {[isNone |-> TRUE, keys |-> << >>]} \cup
    {[isNone |-> FALSE, keys |-> [i \in 1..n |-> i]] : n \in 0..MaxKeys}

\* Archives in which only the keys the job reads hold rows.
Archives(keys) ==
    {s \in [Keys -> 0..MaxRows] :
        \A k \in Keys : (\A i \in 1..Len(keys) : keys[i] # k) => s[k] = 0}

RECURSIVE ConcatRows(_)
ConcatRows(keys) ==
    IF keys = << >> THEN << >>
    ELSE KeyRows(Head(keys)) \o ConcatRows(Tail(keys))

\* The table after a complete reload: all rows of all the job's keys.
NewRows == ConcatRows(job.hdf_tables.keys)

ForeignKeys == 1..job.foreign_keys

BaseJobs ==
    {[cls |-> c, sql_table |-> t, hdf_tables |-> h,
      csv_chunksize |-> MaxChunk,
      hdf_chunksize |-> hc,
      data_formatters |-> f, data_formatter_kwargs |-> {},
      foreign_keys |-> nfk, rows |-> 0, columns |-> 0] :
        c \in BaseClasses, t \in {"naics_industry", "cities"},
        h \in TableChoices, hc \in 1..MaxChunk,
        f \in FormatterLists, nfk \in 0..MaxFks}

\* A DataFrameCopy holds one DataFrame: the rows of key 1.
DataFrameJobs ==
    {[cls |-> "DataFrameCopy", sql_table |-> "cities",
      hdf_tables |-> [isNone |-> FALSE, keys |-> <<1>>],
      csv_chunksize |-> cc, hdf_chunksize |-> MaxChunk,
      data_formatters |-> << >>, data_formatter_kwargs |-> {},
      foreign_keys |-> nfk, rows |-> 0, columns |-> 0] :
        cc \in 1..MaxChunk, nfk \in 0..MaxFks}

\* hdf_chunksize is read by BigHDFTableCopy alone.
JobInputs ==
    {j \in BaseJobs : j.cls # "BigHDFTableCopy" => j.hdf_chunksize = MaxChunk}
    \cup DataFrameJobs

NoTx == [inTx |-> FALSE, rows |-> << >>, truncated |-> FALSE]
NoXfer == [k |-> 1, df |-> << >>, chunks |-> << >>, start |-> 0, wleft |-> 0,
           reads |-> << >>, sent |-> << >>, again |-> FALSE, initial |-> << >>,
           columns |-> 0, lists |-> << >>, supplied |-> {},
           hooked |-> << >>]

\* A read of rows [start, stop) of key k, and a payload of rows of key k
\* handed to copy_from_file.
Read(k, start, stop) == [k |-> k, start |-> start, stop |-> stop]
Sent(k, rows) == [k |-> k, rows |-> rows]

\* Storer attrs of a key: no block under the attribute name, or a dict
\* whose sql_table_name is a table name or is missing / empty (<< >>).
NoBlock == [block |-> FALSE, sql_table_name |-> << >>]

\* No HDFMetadata object is built.
NoMeta == [attrs |-> << >>, metadata_attr |-> FALSE, keys |-> << >>,
           sql_to_hdf |-> << >>]

\* The orchestrator at rest.
OrchIdle ==
    /\ meta = NoMeta
    /\ processes = [kind |-> "None", n |-> 0]
    /\ args = [keys |-> << >>, sql_to_hdf |-> [isNone |-> TRUE, items |-> << >>]]
    /\ tables = << >>
    /\ opc = "idle"
    /\ wpc = << >>
    /\ jexc = << >>
    /\ ran_in = << >>
    /\ jconn = << >>
    /\ nconn = 0
    /\ openc = {}
    /\ taskq = << >>
    /\ wjob = << >>
    /\ outq = << >>
    /\ result = [number_left |-> 0, success |-> TRUE, value |-> NoError]
    /\ reported = << >>
    /\ surfaced = NoError
    /\ calls = << >>
    /\ wrest = << >>
    /\ wloc = << >>

\* State after the copy object is constructed with a connection and a table
\* (defer_sql_objs = False), before copy() is called.
InitCopy ==
    /\ cols = [k \in Keys |-> 1]
    /\ \E j \in JobInputs :
         /\ src \in Archives(j.hdf_tables.keys)
         /\ job = IF j.cls = "DataFrameCopy"
                  THEN [j EXCEPT !.rows = src[1], !.columns = cols[1]]
                  ELSE j
    /\ prev \in PrevContents
    /\ db \in {[rows |-> prev, pk |-> p, fks |-> f] :
                 p \in BOOLEAN, f \in SUBSET ForeignKeys}
    /\ conn = NoTx
    /\ pc = "drop_fks"
    /\ exc = NoExc
    /\ xfer = NoXfer
    /\ log = << >>
    /\ OrchIdle

\* --------------------------------------------------------- the connection
\* Tag of the transaction a statement issued now runs in: the transaction
\* opened by conn.begin(), or none (the statement is committed on its own).
CurTx == IF conn.inTx THEN "load" ELSE "auto"

Stmt(op, arg, tx, ok) == [op |-> op, arg |-> arg, tx |-> tx, ok |-> ok]

\* The exception leaves the with conn.begin() block if one is open.
Raise(e) ==
    /\ exc' = e
    /\ pc' = IF conn.inTx THEN "tx_exit" ELSE "raised"

\* ------------------------------------------------------------ drop_fks
\* One DropConstraint per foreign key, each in its own begin_nested()
\* block; SQLAlchemyError (the constraint does not exist) is caught.
DropFkStmts ==
    [i \in 1..job.foreign_keys |-> Stmt("drop_fk", i, "nested", i \in db.fks)]

drop_fks ==
    /\ pc = "drop_fks"
    /\ log' = log \o DropFkStmts
    /\ db' = [db EXCEPT !.fks = db.fks \ ForeignKeys]
    /\ pc' = "drop_pk"
    /\ UNCHANGED <<job, src, prev, conn, exc, xfer>>
    /\ UNCHANGED <<cols, meta, ovars>>

\* Mutant of drop_pk: the error of a failed drop is let out.
drop_pk_raises ==
    /\ pc = "drop_pk"
    /\ log' = Append(log, Stmt("drop_pk", 0, "nested", db.pk))
    /\ db' = [db EXCEPT !.pk = FALSE]
    /\ IF db.pk
       THEN /\ pc' = IF job.cls = "DataFrameCopy" THEN "format_df" ELSE "begin"
            /\ exc' = exc
       ELSE Raise("SQLAlchemyError")
    /\ UNCHANGED <<job, src, prev, conn, xfer>>
    /\ UNCHANGED <<cols, meta, ovars>>

\* ------------------------------------------------------------- drop_pk
\* DropConstraint(primary_key) in a begin_nested() block; SQLAlchemyError
\* (the constraint does not exist) is caught.
drop_pk ==
    /\ pc = "drop_pk"
    /\ log' = Append(log, Stmt("drop_pk", 0, "nested", db.pk))
    /\ db' = [db EXCEPT !.pk = FALSE]
    /\ pc' = IF job.cls = "DataFrameCopy" THEN "format_df" ELSE "begin"
    /\ UNCHANGED <<job, src, prev, conn, exc, xfer>>
    /\ UNCHANGED <<cols, meta, ovars>>

\* ------------------------------------------ DataFrameCopy.format_df
\* cast_pandas and add_level_metadata, before the transaction is opened.
format_df ==
    /\ pc = "format_df"
    /\ \E ok \in BOOLEAN :
         IF ok THEN pc' = "begin" /\ exc' = exc
         ELSE Raise("FormatError")
    /\ UNCHANGED <<job, src, prev, db, conn, xfer, log>>
    /\ UNCHANGED <<cols, meta, ovars>>

\* Mutant of begin: the block is entered without opening a transaction.
begin_no_transaction ==
    /\ pc = "begin"
    /\ pc' = "truncate"
    /\ UNCHANGED <<job, src, prev, db, conn, exc, xfer, log>>
    /\ UNCHANGED <<cols, meta, ovars>>

\* ----------------------------------------- with self.conn.begin():
begin ==
    /\ pc = "begin"
    /\ conn' = [inTx |-> TRUE, rows |-> db.rows, truncated |-> FALSE]
    /\ log' = Append(log, Stmt("begin", 0, "load", TRUE))
    /\ pc' = "truncate"
    /\ UNCHANGED <<job, src, prev, db, exc, xfer>>
    /\ UNCHANGED <<cols, meta, ovars>>

\* Mutant of truncate: the statement is sent outside the open transaction
\* and committed at once.
truncate_autocommit ==
    /\ pc = "truncate"
    /\ log' = Append(log, Stmt("truncate", 0, CurTx, TRUE))
    /\ db' = [db EXCEPT !.rows = << >>]
    /\ conn' = [conn EXCEPT !.rows = << >>, !.truncated = TRUE]
    /\ pc' = IF job.cls = "DataFrameCopy" THEN "generator" ELSE "next_table"
    /\ xfer' = IF job.cls = "DataFrameCopy"
               THEN [xfer EXCEPT !.df = KeyRows(1), !.columns = cols[1]] ELSE xfer
    /\ UNCHANGED <<job, src, prev, exc>>
    /\ UNCHANGED <<cols, meta, ovars>>

\* Mutant of truncate: the statement is accepted and removes no row.
truncate_keeps_rows ==
    /\ pc = "truncate"
    /\ log' = Append(log, Stmt("truncate", 0, CurTx, TRUE))
    /\ conn' = [conn EXCEPT !.truncated = TRUE]
    /\ pc' = IF job.cls = "DataFrameCopy" THEN "generator" ELSE "next_table"
    /\ xfer' = IF job.cls = "DataFrameCopy"
               THEN [xfer EXCEPT !.df = KeyRows(1), !.columns = cols[1]] ELSE xfer
    /\ UNCHANGED <<job, src, prev, db, exc>>
    /\ UNCHANGED <<cols, meta, ovars>>

\* ------------------------------------------------------------ truncate
\* TRUNCATE TABLE: inside a transaction it empties the transaction's view,
\* outside one it is committed at once.
truncate ==
    /\ pc = "truncate"
    /\ \E ok \in BOOLEAN :
         /\ log' = Append(log, Stmt("truncate", 0, CurTx, ok))
         /\ IF ok
            THEN /\ IF conn.inTx
                    THEN /\ conn' = [conn EXCEPT !.rows = << >>,
                                                 !.truncated = TRUE]
                         /\ db' = db
                    ELSE /\ db' = [db EXCEPT !.rows = << >>]
                         /\ conn' = conn
                 /\ exc' = exc
                 /\ pc' = IF job.cls = "DataFrameCopy"
                          THEN "generator" ELSE "next_table"
                 /\ xfer' = IF job.cls = "DataFrameCopy"
                            THEN [xfer EXCEPT !.df = KeyRows(1), !.columns = cols[1]]
                            ELSE xfer
            ELSE /\ Raise("OperationalError")
                 /\ UNCHANGED <<db, conn, xfer>>
    /\ UNCHANGED <<job, src, prev>>
    /\ UNCHANGED <<cols, meta, ovars>>

\* ------------------------------------------------------------ hdf_to_pg
CurKey == job.hdf_tables.keys[xfer.k]

\* Head of "for hdf_table in self.hdf_tables", after the None check; for
\* BigHDFTableCopy also the row count and the number of windows.
next_table ==
    /\ pc = "next_table"
    /\ IF job.hdf_tables.isNone \/ xfer.k > Len(job.hdf_tables.keys)
       THEN /\ pc' = "tx_exit"
            /\ UNCHANGED <<job, exc, xfer>>
       ELSE IF job.cls = "BigHDFTableCopy"
       THEN \E ok \in BOOLEAN :
              IF ok
              THEN /\ job' = [job EXCEPT !.rows = job.rows + src[CurKey]]
                   /\ xfer' = [xfer EXCEPT
                          !.start = 0,
                          !.wleft = n_windows(src[CurKey], job.hdf_chunksize)]
                   /\ pc' = "next_window"
                   /\ exc' = exc
              ELSE /\ Raise("KeyError")
                   /\ UNCHANGED <<job, xfer>>
       ELSE /\ pc' = "read"
            /\ UNCHANGED <<job, exc, xfer>>
    /\ UNCHANGED <<src, prev, db, conn, log>>
    /\ UNCHANGED <<cols, meta, ovars>>

\* Head of "for i in range(n_chunks)" of BigHDFTableCopy.hdf_to_pg.
next_window ==
    /\ pc = "next_window"
    /\ IF xfer.wleft = 0
       THEN /\ xfer' = [xfer EXCEPT !.k = xfer.k + 1]
            /\ pc' = "next_table"
       ELSE /\ xfer' = [xfer EXCEPT !.wleft = xfer.wleft - 1]
            /\ pc' = "read"
    /\ UNCHANGED <<job, src, prev, db, conn, exc, log>>
    /\ UNCHANGED <<cols, meta, ovars>>

\* Mutant of read_table: the counter is set to the rows of the key read.
read_table_sets_counter ==
    /\ pc = "read"
    /\ \E ok \in BOOLEAN :
         IF ok
         THEN /\ IF job.cls = "BigHDFTableCopy"
                 THEN LET stop == Min(xfer.start + job.hdf_chunksize,
                                      src[CurKey])
                      IN /\ xfer' = [xfer EXCEPT
                                !.df = read_hdf(CurKey, xfer.start, stop),
                                !.columns = cols[CurKey],
                                !.start = xfer.start + job.hdf_chunksize,
                                !.reads = Append(xfer.reads,
                                            Read(CurKey, xfer.start, stop))]
                         /\ job' = job
                 ELSE /\ xfer' = [xfer EXCEPT
                             !.df = read_hdf(CurKey, 0, src[CurKey]),
                             !.columns = cols[CurKey],
                             !.reads = Append(xfer.reads,
                                         Read(CurKey, 0, src[CurKey]))]
                      /\ job' = [job EXCEPT !.rows = src[CurKey]]
              /\ pc' = "format"
              /\ exc' = exc
         ELSE /\ Raise("IOError")
              /\ UNCHANGED <<job, xfer>>
    /\ UNCHANGED <<src, prev, db, conn, log>>
    /\ UNCHANGED <<cols, meta, ovars>>

\* pd.read_hdf of the whole key, or of the window [start, stop).
read_table ==
    /\ pc = "read"
    /\ \E ok \in BOOLEAN :
         IF ok
         THEN /\ IF job.cls = "BigHDFTableCopy"
                 THEN LET stop == Min(xfer.start + job.hdf_chunksize,
                                      src[CurKey])
                      IN /\ xfer' = [xfer EXCEPT
                                !.df = read_hdf(CurKey, xfer.start, stop),
                                !.columns = cols[CurKey],
                                !.start = xfer.start + job.hdf_chunksize,
                                !.reads = Append(xfer.reads,
                                            Read(CurKey, xfer.start, stop))]
                         /\ job' = job
                 ELSE /\ xfer' = [xfer EXCEPT
                             !.df = read_hdf(CurKey, 0, src[CurKey]),
                             !.columns = cols[CurKey],
                             !.reads = Append(xfer.reads,
                                         Read(CurKey, 0, src[CurKey]))]
                      /\ job' = [job EXCEPT !.rows = job.rows + src[CurKey]]
              /\ pc' = "format"
              /\ exc' = exc
         ELSE /\ Raise("IOError")
              /\ UNCHANGED <<job, xfer>>
    /\ UNCHANGED <<src, prev, db, conn, log>>
    /\ UNCHANGED <<cols, meta, ovars>>

\* data_formatter_kwargs["hdf_table"] = hdf_table, then
\* self.data_formatting(df, functions=data_formatters, **kwargs)
data_formatting ==
    /\ pc = "format"
    /\ LET kwargs == SetItem(job.data_formatter_kwargs, "hdf_table", CurKey)
       IN /\ job' = [job EXCEPT !.data_formatter_kwargs = kwargs]
          /\ \E o \in FormatOutcomes(job.data_formatters, kwargs) :
               LET made == [i \in 1..o.n |->
                              HookCall(job.data_formatters, i, kwargs)]
               IN IF o.exc = NoExc
                  THEN /\ exc' = exc
                       /\ IF job.cls = "SmallHDFTableCopy"
                          THEN /\ xfer' = [xfer EXCEPT
                                      !.hooked = xfer.hooked \o made,
                                      !.chunks = <<xfer.df>>]
                               /\ pc' = "copy"
                          ELSE /\ xfer' = [xfer EXCEPT
                                      !.hooked = xfer.hooked \o made]
                               /\ pc' = "generator"
                  ELSE /\ Raise(o.exc)
                       /\ xfer' = [xfer EXCEPT
                              !.hooked = xfer.hooked \o made]
    /\ UNCHANGED <<src, prev, db, conn, log>>
    /\ UNCHANGED <<cols, meta, ovars>>

\* The call df_generator(df, self.csv_chunksize[, logger=self.logger]).
call_df_generator ==
    /\ pc = "generator"
    /\ IF GeneratorCallOk(GeneratorKeywords(job.cls))
       THEN /\ xfer' = [xfer EXCEPT
                   !.chunks = df_generator(xfer.df, job.csv_chunksize)]
            /\ pc' = "copy"
            /\ exc' = exc
       ELSE /\ Raise("TypeError")
            /\ xfer' = xfer
    /\ UNCHANGED <<job, src, prev, db, conn, log>>
    /\ UNCHANGED <<cols, meta, ovars>>

\* Where control goes when the chunk loop of the class is exhausted.
AfterChunks(cls) ==
    CASE cls = "DataFrameCopy" -> "tx_exit"
      [] cls = "BigHDFTableCopy" -> "next_window"
      [] OTHER -> "next_table"

\* COPY ... FREEZE is refused unless the table was truncated in the
\* transaction that is open.
FreezeAllowed == conn.inTx /\ conn.truncated

\* One pass of the chunk loop: create_file_object, then copy_from_file.
copy_chunk ==
    /\ pc = "copy"
    /\ \E ok \in BOOLEAN :
         LET fo == create_file_object(Head(xfer.chunks))
             done == ok /\ FreezeAllowed
             payload == Sent(CurKey, Head(xfer.chunks))
         IN /\ log' = Append(log, Stmt("copy", Len(Head(xfer.chunks)),
                                       CurTx, done))
            /\ IF done
               THEN /\ conn' = [conn EXCEPT
                           !.rows = conn.rows \o copy_from_file(job.cls, fo)]
                    /\ exc' = exc
                    /\ IF Len(xfer.chunks) > 1
                       THEN /\ xfer' = [xfer EXCEPT
                                   !.chunks = Tail(xfer.chunks),
                                   !.sent = Append(xfer.sent, payload),
                                   !.lists = Append(xfer.lists,
                                               CopyColumns(job.cls, fo))]
                            /\ pc' = "copy"
                       ELSE /\ xfer' = [xfer EXCEPT
                                   !.chunks = << >>,
                                   !.sent = Append(xfer.sent, payload),
                                   !.lists = Append(xfer.lists,
                                               CopyColumns(job.cls, fo)),
                                   !.k = IF job.cls = "SmallHDFTableCopy"
                                            \/ job.cls = "HDFTableCopy"
                                         THEN xfer.k + 1 ELSE xfer.k]
                            /\ pc' = AfterChunks(job.cls)
               ELSE /\ Raise("DataError")
                    /\ xfer' = [xfer EXCEPT
                           !.sent = Append(xfer.sent, payload),
                                   !.lists = Append(xfer.lists,
                                               CopyColumns(job.cls, fo))]
                    /\ conn' = conn
    /\ UNCHANGED <<job, src, prev, db>>
    /\ UNCHANGED <<cols, meta, ovars>>

\* Mutant of exit_transaction: the block commits whether or not an
\* exception leaves it.
exit_transaction_always_commits ==
    /\ pc = "tx_exit"
    /\ log' = Append(log, Stmt("commit", 0, CurTx, TRUE))
    /\ db' = IF conn.inTx THEN [db EXCEPT !.rows = conn.rows] ELSE db
    /\ pc' = IF exc = NoExc THEN "create_pk" ELSE "raised"
    /\ conn' = NoTx
    /\ UNCHANGED <<job, src, prev, exc, xfer>>
    /\ UNCHANGED <<cols, meta, ovars>>

\* Mutant of exit_transaction: the transaction is left open when the block
\* ends normally.
exit_transaction_without_commit ==
    /\ pc = "tx_exit"
    /\ IF exc = NoExc
       THEN /\ pc' = "create_pk"
            /\ UNCHANGED <<conn, log>>
       ELSE /\ log' = Append(log, Stmt("rollback", 0, CurTx, TRUE))
            /\ pc' = "raised"
            /\ conn' = NoTx
    /\ UNCHANGED <<job, src, prev, db, exc, xfer>>
    /\ UNCHANGED <<cols, meta, ovars>>

\* Mutant of exit_transaction: after the rollback the exception is dropped
\* and copy() goes on.
exit_transaction_resumes ==
    /\ pc = "tx_exit"
    /\ IF exc = NoExc
       THEN \E ok \in BOOLEAN :
              /\ log' = Append(log, Stmt("commit", 0, CurTx, ok))
              /\ IF ok
                 THEN /\ db' = IF conn.inTx
                               THEN [db EXCEPT !.rows = conn.rows] ELSE db
                      /\ pc' = "create_pk"
                      /\ exc' = exc
                 ELSE /\ db' = db
                      /\ pc' = "raised"
                      /\ exc' = "OperationalError"
       ELSE /\ log' = Append(log, Stmt("rollback", 0, CurTx, TRUE))
            /\ db' = db
            /\ pc' = "create_pk"
            /\ exc' = NoExc
    /\ conn' = NoTx
    /\ UNCHANGED <<job, src, prev, xfer>>
    /\ UNCHANGED <<cols, meta, ovars>>

\* ------------------------------------- leaving with self.conn.begin():
\* Transaction.__exit__: commit when the block ended normally, roll back
\* when an exception leaves it (the exception is then re-raised).
exit_transaction ==
    /\ pc = "tx_exit"
    /\ IF exc = NoExc
       THEN \E ok \in BOOLEAN :
              /\ log' = Append(log, Stmt("commit", 0, CurTx, ok))
              /\ IF ok
                 THEN /\ db' = IF conn.inTx
                               THEN [db EXCEPT !.rows = conn.rows] ELSE db
                      /\ pc' = "create_pk"
                      /\ exc' = exc
                 ELSE /\ db' = db
                      /\ pc' = "raised"
                      /\ exc' = "OperationalError"
       ELSE /\ log' = Append(log, Stmt("rollback", 0, CurTx, TRUE))
            /\ db' = db
            /\ pc' = "raised"
            /\ exc' = exc
    /\ conn' = NoTx
    /\ UNCHANGED <<job, src, prev, xfer>>
    /\ UNCHANGED <<cols, meta, ovars>>

\* ------------------------------------------------------------ create_pk
\* BaseCopy.create_pk wraps AddConstraint in try / bare except and prints
\* "skipping adding pk"; DataFrameCopy.create_pk lets the error out.
PkErrorSwallowed(cls) == cls \in BaseClasses

create_pk ==
    /\ pc = "create_pk"
    /\ \E ok \in BOOLEAN :
         /\ log' = Append(log, Stmt("create_pk", 0, CurTx, ok))
         /\ db' = IF ok THEN [db EXCEPT !.pk = TRUE] ELSE db
         /\ IF ok \/ PkErrorSwallowed(job.cls)
            THEN pc' = "create_fks" /\ exc' = exc
            ELSE Raise("SQLAlchemyError")
    /\ UNCHANGED <<job, src, prev, conn, xfer>>
    /\ UNCHANGED <<cols, meta, ovars>>

\* ----------------------------------------------------------- create_fks
\* BaseCopy.create_fks issues "ALTER TABLE t CREATE CONSTRAINT name" per
\* foreign key, which PostgreSQL rejects as a syntax error; the error is
\* caught.  DataFrameCopy.create_fks issues AddConstraint(fk), which may
\* succeed or fail; the error is caught.
CreateFkStmts(created) ==
    [i \in 1..job.foreign_keys |-> Stmt("create_fk", i, CurTx, i \in created)]

FkOutcomes(cls) ==
    IF cls = "DataFrameCopy" THEN SUBSET ForeignKeys ELSE {{}}

\* The foreign key on naics_id that BaseCopy.create_fks adds to the table
\* named naics_industry.
NaicsFk == 0

create_fks ==
    /\ pc = "create_fks"
    /\ \E naics_ok \in BOOLEAN, created \in FkOutcomes(job.cls) :
         LET naics == job.cls \in BaseClasses /\ job.sql_table = "naics_industry"
         IN IF naics /\ ~naics_ok
            THEN \* the except clause reads fk, which is not bound yet
                 /\ log' = Append(log, Stmt("create_fk", NaicsFk, CurTx, FALSE))
                 /\ db' = db
                 /\ Raise("UnboundLocalError")
            ELSE /\ log' = (IF naics
                            THEN Append(log, Stmt("create_fk", NaicsFk, CurTx, TRUE))
                            ELSE log) \o CreateFkStmts(created)
                 /\ db' = [db EXCEPT !.fks =
                              db.fks \cup created
                                     \cup (IF naics THEN {NaicsFk} ELSE {})]
                 /\ pc' = "analyze"
                 /\ exc' = exc
    /\ UNCHANGED <<job, src, prev, conn, xfer>>
    /\ UNCHANGED <<cols, meta, ovars>>

\* Mutant of analyze: the statement is issued a second time.
analyze_twice ==
    /\ pc = "analyze"
    /\ \E ok \in BOOLEAN :
         /\ log' = log \o <<Stmt("analyze", 0, CurTx, TRUE),
                             Stmt("analyze", 0, CurTx, ok)>>
         /\ IF ok THEN pc' = "done" /\ exc' = exc
            ELSE Raise("OperationalError")
    /\ UNCHANGED <<job, src, prev, db, conn, xfer>>
    /\ UNCHANGED <<cols, meta, ovars>>

\* -------------------------------------------------------------- analyze
analyze ==
    /\ pc = "analyze"
    /\ \E ok \in BOOLEAN :
         /\ log' = Append(log, Stmt("analyze", 0, CurTx, ok))
         /\ IF ok THEN pc' = "done" /\ exc' = exc
            ELSE Raise("OperationalError")
    /\ UNCHANGED <<job, src, prev, db, conn, xfer>>
    /\ UNCHANGED <<cols, meta, ovars>>

\* copy() of HDFTableCopy and its subclasses, and of DataFrameCopy.
NextCopy ==
    \/ drop_fks
    \/ drop_pk
    \/ format_df
    \/ begin
    \/ truncate
    \/ next_table
    \/ next_window
    \/ read_table
    \/ data_formatting
    \/ call_df_generator
    \/ copy_chunk
    \/ exit_transaction
    \/ create_pk
    \/ create_fks
    \/ analyze

SpecCopy == InitCopy /\ [][NextCopy]_vars

\* Jobs over archives whose keys hold frames of different column lists; the
\* table is empty, has its primary key and no foreign key.
InitColumns ==
    /\ \E j \in JobInputs :
         /\ j.foreign_keys = 0
         /\ j.sql_table = "cities"
         /\ src \in Archives(j.hdf_tables.keys)
         /\ cols \in {c \in [Keys -> ColumnLists] :
                        \A k \in Keys :
                            (\A i \in 1..Len(j.hdf_tables.keys) :
                                 j.hdf_tables.keys[i] # k) => c[k] = 1}
         /\ job = IF j.cls = "DataFrameCopy"
                  THEN [j EXCEPT !.rows = src[1], !.columns = cols[1]]
                  ELSE j
    /\ prev = << >>
    /\ db = [rows |-> << >>, pk |-> TRUE, fks |-> {}]
    /\ conn = NoTx
    /\ pc = "drop_fks"
    /\ exc = NoExc
    /\ xfer = NoXfer
    /\ log = << >>
    /\ OrchIdle

SpecColumns == InitColumns /\ [][NextCopy]_vars

\* Hook lists and keyword dicts a caller hands to copy().
HookLists == FormatterLists \cup {<<"hook", "hook2">>, <<"hook", "cast_pandas">>}

CallerKwargs ==
    {{}, {<<"level", 0>>}, {<<"hdf_table", 0>>, <<"level", 0>>},
     {<<"copy_obj", 0>>}, {<<"functions", 0>>}}

\* copy(data_formatters=f, data_formatter_kwargs=kw) on a fresh HDF job,
\* or copy() on a fresh DataFrameCopy, which takes no hooks; the table is
\* empty and has no foreign keys.
InitHooks ==
    /\ cols = [k \in Keys |-> 1]
    /\ \E j \in JobInputs, f \in HookLists, kw \in CallerKwargs :
         /\ j.foreign_keys = 0
         /\ j.sql_table = "cities"
         /\ j.data_formatters = << >>
         /\ src \in Archives(j.hdf_tables.keys)
         /\ IF j.cls = "DataFrameCopy"
            THEN /\ f = << >> /\ kw = {}
                 /\ job = [j EXCEPT !.rows = src[1], !.columns = cols[1]]
            ELSE job = [j EXCEPT !.data_formatters = f,
                                 !.data_formatter_kwargs = kw]
         /\ xfer = [NoXfer EXCEPT !.supplied = kw]
    /\ prev = << >>
    /\ db = [rows |-> << >>, pk |-> TRUE, fks |-> {}]
    /\ conn = NoTx
    /\ pc = "drop_fks"
    /\ exc = NoExc
    /\ log = << >>
    /\ OrchIdle

SpecHooks == InitHooks /\ [][NextCopy]_vars

\* copy() is called a second time on the same object after it returned:
\* the attributes of the object are kept (rows goes on counting), the
\* locals are new, and the table holds what the first call left.
copy_again ==
    /\ pc = "done"
    /\ ~xfer.again
    /\ pc' = "drop_fks"
    /\ prev' = db.rows
    /\ xfer' = [NoXfer EXCEPT !.again = TRUE, !.initial = prev]
    /\ log' = << >>
    /\ UNCHANGED <<job, src, db, conn, exc>>
    /\ UNCHANGED <<cols, meta, ovars>>

NextTwice ==
    \/ NextCopy
    \/ copy_again

SpecTwice == InitCopy /\ [][NextTwice]_vars

\* ======================================================= hdf_to_postgres
\* Names are strings, modelled as sequences of characters: the i-th name
\* has i characters and shares none with another name.
Alphabet == <<"a", "b", "c", "d", "e", "f", "g", "h", "i", "j">>
Name(i) == SubSeq(Alphabet, ((i * (i - 1)) \div 2) + 1, (i * (i + 1)) \div 2)

\* set(x) of a string x: the set of its one-character strings.
set(x) == {<<x[i]>> : i \in DOMAIN x}

\* Lists of distinct key names, in increasing order.
RECURSIVE Ascending(_)
Ascending(S) ==
    IF S = {} THEN << >>
    ELSE LET m == CHOOSE x \in S : \A y \in S : x <= y
         IN <<Name(m)>> \o Ascending(S \ {m})

KeyLists == {Ascending(S) : S \in SUBSET (1..MaxJobs)}

\* sql_to_hdf: None, or a dict from SQL table names to sets of HDF keys, in
\* insertion order.  Table i is fed by key i, or one table by keys 1..n or
\* by no key.
Item(t, hs) == [sql_table |-> t, hdf_tables |-> hs]
OneToOne(n) == [i \in 1..n |-> Item(<<"t">> \o Name(i), {Name(i)})]
ManyToOne(n) == <<Item(<<"t">>, {Name(i) : i \in 1..n})>>

SqlToHdfChoices ==
    {[isNone |-> TRUE, items |-> << >>]}
    \cup {[isNone |-> FALSE, items |-> OneToOne(n)] : n \in 0..MaxJobs}
    \cup {[isNone |-> FALSE, items |-> ManyToOne(n)] : n \in 2..MaxJobs}
    \cup {[isNone |-> FALSE, items |-> <<Item(<<"t">>, {})>>]}

ProcessesChoices ==
    {[kind |-> "None", n |-> 0], [kind |-> "other", n |-> 0]}
    \cup {[kind |-> "int", n |-> n] : n \in 0..MaxProcs}

\* State on entry to hdf_to_postgres.
InitOrch ==
    /\ processes \in ProcessesChoices
    /\ args \in [keys : KeyLists, sql_to_hdf : SqlToHdfChoices]
    /\ tables = << >>
    /\ opc = "start"
    /\ wpc = << >>
    /\ jexc = << >>
    /\ ran_in = << >>
    /\ jconn = << >>
    /\ nconn = 0
    /\ openc = {}
    /\ taskq = << >>
    /\ wjob = << >>
    /\ outq = << >>
    /\ result = [number_left |-> 0, success |-> TRUE, value |-> NoError]
    /\ reported = << >>
    /\ surfaced = NoError
    /\ calls = << >>
    /\ wrest = << >>
    /\ wloc = << >>
    \* no copy object is run outside the workers
    /\ job = CHOOSE j \in JobInputs : TRUE
    /\ src = [k \in Keys |-> 0]
    /\ cols = [k \in Keys |-> 1]
    /\ meta = NoMeta
    /\ prev = << >>
    /\ db = [rows |-> << >>, pk |-> TRUE, fks |-> {}]
    /\ conn = NoTx
    /\ pc = "idle"
    /\ exc = NoExc
    /\ xfer = NoXfer
    /\ log = << >>

InList(x, list) == \E i \in DOMAIN list : list[i] = x

\* Truth value of a list and of a dict-or-None.
Truthy(list) == list # << >>
DictTruthy(d) == ~d.isNone /\ d.items # << >>

\* Mutant of FilterItems: a table that keeps no key stays in the mapping.
RECURSIVE FilterItemsKeepsEmpty(_, _)
FilterItemsKeepsEmpty(items, keys) ==
    IF items = << >> THEN << >>
    ELSE <<Item(Head(items).sql_table,
                {h \in Head(items).hdf_tables : InList(h, keys)})>>
         \o FilterItemsKeepsEmpty(Tail(items), keys)

\* Lines 147-159: keep of every table the keys that are in keys, and drop a
\* table that keeps none.
RECURSIVE FilterItems(_, _)
FilterItems(items, keys) ==
    IF items = << >> THEN << >>
    ELSE LET filtered_hdf ==
                 {h \in Head(items).hdf_tables : InList(h, keys)}
             rest == FilterItems(Tail(items), keys)
         IN IF filtered_hdf # {}
            THEN <<Item(Head(items).sql_table, filtered_hdf)>> \o rest
            ELSE rest

\* Line 161: {x: set(x) for x in keys}.
KeysToItems(keys) == [i \in DOMAIN keys |-> Item(keys[i], set(keys[i]))]

\* create_hdf_table_objects: one deferred HDFTableCopy per dict item.
create_hdf_table_objects(items) ==
    [i \in DOMAIN items |->
        [cls |-> "HDFTableCopy", sql_table |-> items[i].sql_table,
         hdf_tables |-> items[i].hdf_tables, defer_sql_objs |-> TRUE]]

Jobs == DOMAIN tables

\* Where a job ran: nowhere yet, in the calling process, or in worker
\* process w >= 1 of the Pool.
NotRun == -1
MainProcess == 0

\* Lines 147-161: the mapping handed to create_hdf_table_objects.
EffectiveMapping ==
    IF Truthy(args.keys) /\ DictTruthy(args.sql_to_hdf)
    THEN FilterItems(args.sql_to_hdf.items, args.keys)
    ELSE IF Truthy(args.keys)
    THEN KeysToItems(args.keys)
    ELSE args.sql_to_hdf.items

\* Locals of a copy_worker call: table_obj, the result of
\* metadata.tables.get(copy_obj.sql_table, None) once it was made, and
\* whether the call got to copy_obj.copy().
NoLocals == [table_obj |-> "unset", copy_called |-> FALSE]

\* Lines 147-171.
build_tables ==
    /\ opc = "start"
    /\ IF ~Truthy(args.keys) /\ ~DictTruthy(args.sql_to_hdf)
       THEN /\ opc' = "raised"
            /\ surfaced' = Error("ValueError", 0)
            /\ UNCHANGED <<tables, wpc, jexc, ran_in, jconn, calls, wloc>>
       ELSE LET items == EffectiveMapping
            IN /\ tables' = create_hdf_table_objects(items)
               /\ wpc' = [i \in DOMAIN items |-> "new"]
               /\ jexc' = [i \in DOMAIN items |-> NoError]
               /\ ran_in' = [i \in DOMAIN items |-> NotRun]
               /\ jconn' = [i \in DOMAIN items |-> 0]
               /\ calls' = [i \in DOMAIN items |-> 0]
               /\ wloc' = [i \in DOMAIN items |-> NoLocals]
               /\ opc' = "dispatch"
               /\ surfaced' = surfaced
    /\ UNCHANGED <<processes, args, nconn, openc, taskq, wjob, outq, result,
                   reported, wrest>>
    /\ UNCHANGED cvars

\* Line 173 / 178 / 200: the mode chosen by the type of processes.
dispatch ==
    /\ opc = "dispatch"
    /\ IF processes.kind = "None"
       THEN /\ opc' = "seq"
            /\ taskq' = [i \in Jobs |-> i]
            /\ surfaced' = surfaced
       ELSE IF processes.kind = "int"
       THEN /\ opc' = "pool"
            /\ UNCHANGED <<taskq, surfaced>>
       ELSE /\ opc' = "raised"
            /\ surfaced' = Error("ValueError", 0)
            /\ taskq' = taskq
    /\ UNCHANGED <<processes, args, tables, wpc, jexc, ran_in, jconn, nconn,
                   openc, wjob, outq, result, reported>>
    /\ UNCHANGED <<calls, wrest>>
    /\ UNCHANGED cvars
    /\ UNCHANGED wloc

\* ----------------------------------------------------------- copy_worker
\* Methods of HDFTableCopy, its own and BaseCopy's.
Methods(cls) ==
    {"instantiate_attrs", "drop_pk", "create_pk", "drop_fks", "create_fks",
     "truncate", "analyze", "copy_from_file", "data_formatting",
     "copy", "hdf_to_pg"}

HasMethod(cls, m) == m \in Methods(cls)

\* Mutant of NewConnection: every call is handed the first connection.
ReusedConnection(n) == 1

\* The connection a copy_worker call opens: a new one of a new engine.
NewConnection(n) == n + 1

\* Mutant of worker_connect: the calls share one engine and are handed the
\* connection that is open, if there is one.
worker_connect_shared_engine(j) ==
    /\ opc \in {"seq", "join"}
    /\ j \in Jobs
    /\ wpc[j] = "start"
    /\ \E ok \in BOOLEAN :
         IF ok
         THEN /\ nconn' = IF openc = {} THEN NewConnection(nconn) ELSE nconn
              /\ jconn' = [jconn EXCEPT ![j] =
                             IF openc = {} THEN NewConnection(nconn)
                             ELSE CHOOSE c \in openc : TRUE]
              /\ openc' = IF openc = {} THEN {NewConnection(nconn)} ELSE openc
              /\ wpc' = [wpc EXCEPT ![j] = "connected"]
              /\ UNCHANGED <<jexc, outq, wjob>>
         ELSE /\ wpc' = [wpc EXCEPT ![j] = "failed"]
              /\ jexc' = [jexc EXCEPT ![j] = Error("OperationalError", j)]
              /\ IF opc = "join"
                 THEN /\ outq' = Append(outq, j)
                      /\ wjob' = [w \in DOMAIN wjob |->
                                    IF wjob[w] = j THEN 0 ELSE wjob[w]]
                 ELSE UNCHANGED <<outq, wjob>>
              /\ UNCHANGED <<nconn, jconn, openc>>
    /\ UNCHANGED <<processes, args, tables, opc, ran_in, taskq, result,
                   reported, surfaced>>
    /\ UNCHANGED <<calls, wrest>>
    /\ UNCHANGED cvars
    /\ UNCHANGED wloc

\* Lines 80-91: create_engine, reflect, engine.connect(), SET.
worker_connect(j) ==
    /\ opc \in {"seq", "join"}
    /\ j \in Jobs
    /\ wpc[j] = "start"
    /\ \E ok \in BOOLEAN :
         IF ok
         THEN /\ nconn' = NewConnection(nconn)
              /\ jconn' = [jconn EXCEPT ![j] = NewConnection(nconn)]
              /\ openc' = openc \cup {NewConnection(nconn)}
              /\ wpc' = [wpc EXCEPT ![j] = "connected"]
              /\ UNCHANGED <<jexc, outq, wjob>>
         ELSE /\ wpc' = [wpc EXCEPT ![j] = "failed"]
              /\ jexc' = [jexc EXCEPT ![j] = Error("OperationalError", j)]
              /\ IF opc = "join"
                 THEN /\ outq' = Append(outq, j)
                      /\ wjob' = [w \in DOMAIN wjob |->
                                    IF wjob[w] = j THEN 0 ELSE wjob[w]]
                 ELSE UNCHANGED <<outq, wjob>>
              /\ UNCHANGED <<nconn, jconn, openc>>
    /\ UNCHANGED <<processes, args, tables, opc, ran_in, taskq, result,
                   reported, surfaced>>
    /\ UNCHANGED <<calls, wrest>>
    /\ UNCHANGED cvars
    /\ UNCHANGED wloc

\* The locals when the call ends.
Locals(j, exists) ==
    [table_obj |-> IF exists THEN "Table" ELSE "None",
     copy_called |-> exists /\ HasMethod(tables[j].cls, "instantiate_sql_objs")]

\* Mutant of WorkerOutcome: the job is completed before table_obj is
\* tested.
WorkerOutcomeTestsTableLast(j, exists, copied) ==
    IF ~HasMethod(tables[j].cls, "instantiate_sql_objs")
    THEN Error("AttributeError", j)
    ELSE IF ~exists THEN Error("ValueError", j)
    ELSE IF ~copied THEN Error("CopyError", j)
    ELSE NoError

\* Lines 93-103: the table is looked up, the job is completed with
\* instantiate_sql_objs and copy() is run; leaving "with engine.connect()"
\* closes the connection.  exists: the table is in the reflected schema.
\* copied: copy() returns normally.
WorkerOutcome(j, exists, copied) ==
    IF ~exists THEN Error("ValueError", j)
    ELSE IF ~HasMethod(tables[j].cls, "instantiate_sql_objs")
    THEN Error("AttributeError", j)
    ELSE IF ~copied THEN Error("CopyError", j)
    ELSE NoError

worker_run(j) ==
    /\ opc \in {"seq", "join"}
    /\ j \in Jobs
    /\ wpc[j] = "connected"
    /\ \E exists \in BOOLEAN, copied \in BOOLEAN :
         LET e == WorkerOutcome(j, exists, copied)
         IN /\ jexc' = [jexc EXCEPT ![j] = e]
            /\ wpc' = [wpc EXCEPT ![j] = IF e = NoError THEN "ok" ELSE "failed"]
            /\ wloc' = [wloc EXCEPT ![j] = Locals(j, exists)]
    /\ openc' = openc \ {jconn[j]}
    /\ IF opc = "join"
       THEN /\ outq' = Append(outq, j)
            /\ wjob' = [w \in DOMAIN wjob |-> IF wjob[w] = j THEN 0 ELSE wjob[w]]
       ELSE UNCHANGED <<outq, wjob>>
    /\ UNCHANGED <<processes, args, tables, opc, ran_in, jconn, nconn, taskq,
                   result, reported, surfaced>>
    /\ UNCHANGED <<calls, wrest>>
    /\ UNCHANGED cvars

\* ------------------------------------------------------- sequential mode
\* Lines 175-176: the loop calls copy_worker for the next table.
seq_call ==
    /\ opc = "seq"
    /\ taskq # << >>
    /\ wpc[Head(taskq)] = "new"
    /\ wpc' = [wpc EXCEPT ![Head(taskq)] = "start"]
    /\ ran_in' = [ran_in EXCEPT ![Head(taskq)] = MainProcess]
    /\ calls' = [calls EXCEPT ![Head(taskq)] = @ + 1]
    /\ UNCHANGED <<processes, args, tables, opc, jexc, jconn, nconn, openc,
                   taskq, wjob, outq, result, reported, surfaced, wrest>>
    /\ UNCHANGED cvars
    /\ UNCHANGED wloc

\* Mutant of seq_return: a failed call is skipped and the loop goes on.
seq_return_continues ==
    /\ opc = "seq"
    /\ IF taskq = << >>
       THEN /\ opc' = "returned"
            /\ taskq' = taskq
       ELSE /\ wpc[Head(taskq)] \in {"ok", "failed"}
            /\ taskq' = Tail(taskq)
            /\ opc' = opc
    /\ UNCHANGED <<processes, args, tables, wpc, jexc, ran_in, jconn, nconn,
                   openc, wjob, outq, result, reported, surfaced>>
    /\ UNCHANGED <<calls, wrest>>
    /\ UNCHANGED cvars
    /\ UNCHANGED wloc

\* The call returns and the loop goes on, or its exception leaves
\* hdf_to_postgres; after the last table hdf_to_postgres returns.
seq_return ==
    /\ opc = "seq"
    /\ IF taskq = << >>
       THEN /\ opc' = "returned"
            /\ UNCHANGED <<taskq, surfaced>>
       ELSE /\ wpc[Head(taskq)] \in {"ok", "failed"}
            /\ IF wpc[Head(taskq)] = "failed"
               THEN /\ opc' = "raised"
                    /\ surfaced' = jexc[Head(taskq)]
                    /\ taskq' = taskq
               ELSE /\ taskq' = Tail(taskq)
                    /\ UNCHANGED <<opc, surfaced>>
    /\ UNCHANGED <<processes, args, tables, wpc, jexc, ran_in, jconn, nconn,
                   openc, wjob, outq, result, reported>>
    /\ UNCHANGED <<calls, wrest>>
    /\ UNCHANGED cvars
    /\ UNCHANGED wloc

\* --------------------------------------------------------- parallel mode
\* Lines 186-192: Pool(processes), starmap_async(copy_worker, args,
\* chunksize=1), p.close().  Pool() refuses a count below 1; the finally
\* clause then reads p, which was never bound.
pool_submit ==
    /\ opc = "pool"
    /\ IF processes.n < 1
       THEN /\ opc' = "raised"
            /\ surfaced' = Error("UnboundLocalError", 0)
            /\ UNCHANGED <<taskq, wjob, wrest, result>>
       ELSE /\ wjob' = [w \in 1..processes.n |-> 0]
            /\ wrest' = [w \in 1..processes.n |-> << >>]
            /\ taskq' = [i \in Jobs |-> i]
            /\ result' = [number_left |-> Len(tables), success |-> TRUE,
                          value |-> NoError]
            /\ opc' = "join"
            /\ surfaced' = surfaced
    /\ UNCHANGED <<processes, args, tables, wpc, jexc, ran_in, jconn, nconn,
                   openc, outq, reported, calls>>
    /\ UNCHANGED cvars
    /\ UNCHANGED wloc

\* Line 188: chunksize=1, the number of jobs in one task of the Pool.
TaskSize == 1

\* Mutant of worker_take: the task is left on the queue.
worker_take_keeps_task(w) ==
    /\ opc = "join"
    /\ w \in DOMAIN wjob
    /\ wjob[w] = 0
    /\ LET fresh == wrest[w] = << >>
           task == IF fresh
                   THEN SubSeq(taskq, 1, Min(TaskSize, Len(taskq)))
                   ELSE wrest[w]
       IN /\ task # << >>
          /\ wjob' = [wjob EXCEPT ![w] = Head(task)]
          /\ wrest' = [wrest EXCEPT ![w] = Tail(task)]
          /\ taskq' = IF FALSE
                      THEN SubSeq(taskq, Len(task) + 1, Len(taskq))
                      ELSE taskq
          /\ wpc' = [wpc EXCEPT ![Head(task)] = "start"]
          /\ ran_in' = [ran_in EXCEPT ![Head(task)] = w]
          /\ calls' = [calls EXCEPT ![Head(task)] = @ + 1]
    /\ UNCHANGED <<processes, args, tables, opc, jexc, jconn, nconn, openc,
                   outq, result, reported, surfaced>>
    /\ UNCHANGED cvars
    /\ UNCHANGED wloc

\* Mutant of worker_take: a task holds two jobs.
worker_take_two_jobs(w) ==
    /\ opc = "join"
    /\ w \in DOMAIN wjob
    /\ wjob[w] = 0
    /\ LET fresh == wrest[w] = << >>
           task == IF fresh
                   THEN SubSeq(taskq, 1, Min(TaskSize + 1, Len(taskq)))
                   ELSE wrest[w]
       IN /\ task # << >>
          /\ wjob' = [wjob EXCEPT ![w] = Head(task)]
          /\ wrest' = [wrest EXCEPT ![w] = Tail(task)]
          /\ taskq' = IF fresh
                      THEN SubSeq(taskq, Len(task) + 1, Len(taskq))
                      ELSE taskq
          /\ wpc' = [wpc EXCEPT ![Head(task)] = "start"]
          /\ ran_in' = [ran_in EXCEPT ![Head(task)] = w]
          /\ calls' = [calls EXCEPT ![Head(task)] = @ + 1]
    /\ UNCHANGED <<processes, args, tables, opc, jexc, jconn, nconn, openc,
                   outq, result, reported, surfaced>>
    /\ UNCHANGED cvars
    /\ UNCHANGED wloc

\* An idle worker process goes on with its task, or takes the next task
\* off the queue: TaskSize consecutive jobs of the list.
worker_take(w) ==
    /\ opc = "join"
    /\ w \in DOMAIN wjob
    /\ wjob[w] = 0
    /\ LET fresh == wrest[w] = << >>
           task == IF fresh
                   THEN SubSeq(taskq, 1, Min(TaskSize, Len(taskq)))
                   ELSE wrest[w]
       IN /\ task # << >>
          /\ wjob' = [wjob EXCEPT ![w] = Head(task)]
          /\ wrest' = [wrest EXCEPT ![w] = Tail(task)]
          /\ taskq' = IF fresh
                      THEN SubSeq(taskq, Len(task) + 1, Len(taskq))
                      ELSE taskq
          /\ wpc' = [wpc EXCEPT ![Head(task)] = "start"]
          /\ ran_in' = [ran_in EXCEPT ![Head(task)] = w]
          /\ calls' = [calls EXCEPT ![Head(task)] = @ + 1]
    /\ UNCHANGED <<processes, args, tables, opc, jexc, jconn, nconn, openc,
                   outq, result, reported, surfaced>>
    /\ UNCHANGED cvars
    /\ UNCHANGED wloc

\* The Pool's result handler takes the next result: MapResult._set counts
\* it and keeps the first exception.
handle_result ==
    /\ opc = "join"
    /\ outq # << >>
    /\ LET j == Head(outq)
       IN /\ result' = [number_left |-> result.number_left - 1,
                        success |-> result.success /\ wpc[j] = "ok",
                        value |-> IF wpc[j] = "failed" /\ result.success
                                  THEN jexc[j] ELSE result.value]
          /\ reported' = Append(reported, j)
    /\ outq' = Tail(outq)
    /\ UNCHANGED <<processes, args, tables, opc, wpc, jexc, ran_in, jconn,
                   nconn, openc, taskq, wjob, surfaced>>
    /\ UNCHANGED <<calls, wrest>>
    /\ UNCHANGED cvars
    /\ UNCHANGED wloc

\* Mutant of PoolDrained: p.join() returns only when, besides, no job has
\* failed.
PoolDrainedAndSuccessful ==
    /\ taskq = << >>
    /\ outq = << >>
    /\ \A w \in DOMAIN wjob : wjob[w] = 0 /\ wrest[w] = << >>
    /\ result.success

\* p.join() returns when every task was run and every result handled.
PoolDrained ==
    /\ taskq = << >>
    /\ outq = << >>
    /\ \A w \in DOMAIN wjob : wjob[w] = 0 /\ wrest[w] = << >>

\* Mutant of ResultGet: the exception of the failed job that comes first
\* in the job list is raised.
ResultGetByJobOrder(r) ==
    jexc[CHOOSE j \in Jobs :
            /\ wpc[j] = "failed"
            /\ \A i \in Jobs : wpc[i] = "failed" => j <= i]

\* Lines 195-198: result.get() raises the exception the MapResult kept.
ResultGet(r) == r.value

\* Mutant of pool_join: the result is examined without waiting for the
\* workers.
pool_join_no_wait ==
    /\ opc = "join"
    /\ IF result.success
       THEN opc' = "returned" /\ surfaced' = surfaced
       ELSE opc' = "raised" /\ surfaced' = ResultGet(result)
    /\ UNCHANGED <<processes, args, tables, wpc, jexc, ran_in, jconn, nconn,
                   openc, taskq, wjob, outq, result, reported>>
    /\ UNCHANGED <<calls, wrest>>
    /\ UNCHANGED cvars
    /\ UNCHANGED wloc

\* Lines 193-198: p.join(), then result.successful() / result.get().
pool_join ==
    /\ opc = "join"
    /\ PoolDrained
    /\ IF result.success
       THEN opc' = "returned" /\ surfaced' = surfaced
       ELSE opc' = "raised" /\ surfaced' = ResultGet(result)
    /\ UNCHANGED <<processes, args, tables, wpc, jexc, ran_in, jconn, nconn,
                   openc, taskq, wjob, outq, result, reported>>
    /\ UNCHANGED <<calls, wrest>>
    /\ UNCHANGED cvars
    /\ UNCHANGED wloc

NextOrch ==
    \/ build_tables
    \/ dispatch
    \/ seq_call
    \/ seq_return
    \/ pool_submit
    \/ \E w \in 1..MaxProcs : worker_take(w)
    \/ \E j \in 1..MaxJobs : worker_connect(j)
    \/ \E j \in 1..MaxJobs : worker_run(j)
    \/ handle_result
    \/ pool_join

SpecOrch == InitOrch /\ [][NextOrch]_vars

\* The Pool's worker processes poll the task queue on their own: an idle
\* worker that can take a task does take one.  Nothing is assumed about how
\* long a job runs.
SpecOrchDispatch ==
    /\ InitOrch
    /\ [][NextOrch]_vars
    /\ \A w \in 1..MaxProcs : WF_vars(worker_take(w))

\* ------------------------------------------------------------ HDFMetadata
\* store.keys(): every key of the archive.
StoreKeys == [i \in 1..MaxJobs |-> Name(i)]
KeyIndex(key) == CHOOSE i \in 1..MaxJobs : Name(i) = key

\* Destination names found in metadata blocks.
DestNames == {<<"t">>, <<"u">>}

StorerAttrs ==
    {NoBlock} \cup {[block |-> TRUE, sql_table_name |-> n] :
                       n \in {<< >>} \cup DestNames}

\* Mutant of Caught: the except clause catches nothing.
CaughtNothing == {}

\* except (AttributeError, KeyError)
Caught == {"AttributeError", "KeyError"}

\* store.get_storer(key).attrs[metadata_attr]
get_metadata(key) ==
    LET a == meta.attrs[KeyIndex(key)]
    IN IF a.block THEN [exc |-> "none", metadata |-> a]
       ELSE [exc |-> "KeyError", metadata |-> a]

\* self.sql_to_hdf[sql_table].add(key) on a defaultdict(set).
add(items, sql_table, key) ==
    IF \E i \in DOMAIN items : items[i].sql_table = sql_table
    THEN [i \in DOMAIN items |->
            IF items[i].sql_table = sql_table
            THEN Item(sql_table, items[i].hdf_tables \cup {key})
            ELSE items[i]]
    ELSE Append(items, Item(sql_table, {key}))

\* Lines 271-291: the loop over self.keys (metadata_keys at its default).
RECURSIVE collect(_, _)
collect(keys, items) ==
    IF keys = << >> THEN [exc |-> NoError, items |-> items]
    ELSE LET m == get_metadata(Head(keys))
         IN IF m.exc # "none"
            THEN IF m.exc \in Caught
                 THEN collect(Tail(keys), items)
                 ELSE [exc |-> Error(m.exc, 0), items |-> items]
            ELSE IF Truthy(m.metadata.sql_table_name)
            THEN collect(Tail(keys),
                         add(items, m.metadata.sql_table_name, Head(keys)))
            ELSE collect(Tail(keys), items)

\* HDFMetadata.__init__(file_name, keys, metadata_attr=...): the archive
\* opens or not; self.keys = keys or store.keys(); the mapping is built
\* only under a truthy metadata_attr.
HDFMetadata ==
    /\ opc = "construct"
    /\ \E ok \in BOOLEAN :
         IF ok
         THEN LET keys == IF Truthy(meta.keys) THEN meta.keys ELSE StoreKeys
                  out == IF meta.metadata_attr
                         THEN collect(keys, << >>)
                         ELSE [exc |-> NoError, items |-> << >>]
              IN /\ meta' = [meta EXCEPT !.keys = keys,
                                         !.sql_to_hdf = out.items]
                 /\ surfaced' = out.exc
                 /\ opc' = IF out.exc = NoError THEN "constructed"
                           ELSE "raised"
         ELSE /\ meta' = meta
              /\ surfaced' = Error("IOError", 0)
              /\ opc' = "raised"
    /\ UNCHANGED <<processes, args, tables, wpc, jexc, ran_in, jconn, nconn,
                   openc, taskq, wjob, outq, result, reported, calls, wrest,
                   wloc>>
    /\ UNCHANGED <<job, src, cols, prev, db, conn, pc, exc, xfer, log>>

\* The caller hands the catalog's mapping to hdf_to_postgres, with the
\* catalog's key list or without a key list.
call_hdf_to_postgres ==
    /\ opc = "constructed"
    /\ \E with_keys \in BOOLEAN :
         args' = [keys |-> IF with_keys THEN meta.keys ELSE << >>,
                  sql_to_hdf |-> [isNone |-> FALSE,
                                  items |-> meta.sql_to_hdf]]
    /\ opc' = "start"
    /\ UNCHANGED <<processes, tables, wpc, jexc, ran_in, jconn, nconn,
                   openc, taskq, wjob, outq, result, reported, surfaced,
                   calls, wrest>>
    /\ UNCHANGED cvars
    /\ UNCHANGED wloc

\* An archive whose keys carry any storer attrs, a catalog about to be
\* built over it, and a sequential run or a run in a Pool of one process
\* to follow.
InitCatalog ==
    /\ meta \in [attrs : [1..MaxJobs -> StorerAttrs],
                  metadata_attr : BOOLEAN,
                  keys : KeyLists,
                  sql_to_hdf : {<< >>}]
    /\ processes \in {[kind |-> "None", n |-> 0],
                       [kind |-> "int", n |-> 1]}
    /\ args = [keys |-> << >>, sql_to_hdf |-> [isNone |-> TRUE, items |-> << >>]]
    /\ tables = << >>
    /\ opc = "construct"
    /\ wpc = << >>
    /\ jexc = << >>
    /\ ran_in = << >>
    /\ jconn = << >>
    /\ nconn = 0
    /\ openc = {}
    /\ taskq = << >>
    /\ wjob = << >>
    /\ outq = << >>
    /\ result = [number_left |-> 0, success |-> TRUE, value |-> NoError]
    /\ reported = << >>
    /\ surfaced = NoError
    /\ calls = << >>
    /\ wrest = << >>
    /\ wloc = << >>
    /\ job = CHOOSE j \in JobInputs : TRUE
    /\ src = [k \in Keys |-> 0]
    /\ cols = [k \in Keys |-> 1]
    /\ prev = << >>
    /\ db = [rows |-> << >>, pk |-> TRUE, fks |-> {}]
    /\ conn = NoTx
    /\ pc = "idle"
    /\ exc = NoExc
    /\ xfer = NoXfer
    /\ log = << >>

NextCatalog ==
    \/ HDFMetadata
    \/ call_hdf_to_postgres
    \/ NextOrch

SpecCatalog == InitCatalog /\ [][NextCatalog]_vars

\* The ways the package is used: a copy object built and run by the
\* caller, hdf_to_postgres over the caller's mapping, or over the mapping of
\* a catalog.
InitUses == InitColumns \/ InitOrch \/ InitCatalog

NextUses ==
    \/ NextCopy
    \/ NextCatalog

SpecUses == InitUses /\ [][NextUses]_vars

\* A copy object without formatting hooks run by the caller, or a run of
\* hdf_to_postgres, with the progress the code has on its own: the thread
\* that runs copy() executes
\* its next statement (every call into the archive or the database returns
\* or raises), the calling process goes on to submit and to join, and the
\* Pool's result handler takes the results that are queued.  Nothing is
\* assumed about the progress of a job inside a worker.
InitLoops ==
    /\ InitColumns
    /\ cols = [k \in Keys |-> 1]
    /\ job.data_formatters = << >>

InitRuns == InitLoops \/ InitOrch

NextRuns ==
    \/ NextCopy
    \/ NextOrch

SpecRuns ==
    /\ InitRuns
    /\ [][NextRuns]_vars
    /\ WF_vars(NextCopy)
    /\ WF_vars(pool_submit)
    /\ WF_vars(handle_result)
    /\ WF_vars(pool_join)

\* ------------------------------------------------ reading the statement log
Issued(op) == {i \in DOMAIN log : log[i].op = op}
Succeeded(op) == {i \in DOMAIN log : log[i].op = op /\ log[i].ok}
Failed(op) == {i \in DOMAIN log : log[i].op = op /\ ~log[i].ok}

ConstraintDrops == Issued("drop_fk") \cup Issued("drop_pk")
ConstraintCreates == Issued("create_fk") \cup Issued("create_pk")
LoadStmts == Issued("truncate") \cup Issued("copy")
TxBoundaries == Issued("begin") \cup Issued("commit") \cup Issued("rollback")

Finished == pc \in {"done", "raised"}

\* Rows of the job's source keys that are committed in the table.
CommittedNewRows == {i \in DOMAIN db.rows : db.rows[i] # OldRow}

\* Exceptions of reading a window, formatting a batch and bulk-copying.
TransferErrors ==
    {"IOError", "KeyError", "HookError", "TypeError", "FormatError", "DataError"}

\* ---------------------------------------------------------------------- C1
\* C1 as stated: every constraint drop, the truncate, every bulk-copy call
\* and every constraint recreation of copy() runs in the one transaction
\* opened by conn.begin().
C1_WholeSequenceInOneTransaction ==
    \A i \in ConstraintDrops \cup LoadStmts \cup ConstraintCreates :
        log[i].tx = "load"

\* C1 amended: in every execution of copy(), the truncate and all bulk-copy
\* calls run inside the one transaction opened by conn.begin(), with no
\* transaction boundary between them; every constraint drop takes effect
\* before that transaction begins and every constraint recreation is issued
\* after it has committed, outside it.
C1_TruncateAndCopyInOneTransaction ==
    /\ Cardinality(Issued("begin")) <= 1
    /\ \A i \in LoadStmts :
          /\ log[i].tx = "load"
          /\ \E b \in Issued("begin") :
                /\ b < i
                /\ \A k \in TxBoundaries : ~(b < k /\ k < i)
    /\ \A i \in ConstraintDrops :
          /\ log[i].tx # "load"
          /\ \A b \in Issued("begin") : i < b
    /\ \A i \in ConstraintCreates :
          /\ log[i].tx = "auto"
          /\ \E c \in Succeeded("commit") : c < i

\* A finished job that dropped its primary key, copied rows in the load
\* transaction and recreated the primary key.
C1_Witness ==
    /\ pc = "done"
    /\ Succeeded("drop_pk") # {}
    /\ \E i \in Succeeded("copy") : log[i].arg > 0
    /\ Succeeded("create_pk") # {}

\* ---------------------------------------------------------------------- C2
\* C2 as stated, for a job that issued its truncate: when the job has
\* ended, the committed table is fully reloaded or empty.
C2_ReloadedOrEmpty ==
    (Finished /\ Succeeded("truncate") # {}) =>
        (db.rows = NewRows \/ db.rows = << >>)

\* C2 amended: after any outcome of a job, for every previous content of
\* the table and every point at which the job can abort, the committed
\* table is either fully reloaded (the load transaction committed) or holds
\* exactly its previous content (the truncate is rolled back with the
\* copy); it is never half-loaded.
C2_ReloadedOrUnchanged ==
    Finished =>
        IF Succeeded("commit") # {}
        THEN db.rows = NewRows
        ELSE db.rows = prev

\* A job over a populated table aborted after its truncate.
C2_Witness ==
    /\ pc = "raised"
    /\ prev # << >>
    /\ Succeeded("truncate") # {}
    /\ Issued("rollback") # {}
    /\ db.rows = prev

\* ---------------------------------------------------------------------- C3
\* C3: when reading a window, formatting a batch or a bulk-copy call
\* raises, copy() raises, the transaction is rolled back, no row of the
\* job is committed and the table holds its rows of before the truncate.
C3_AbortRollsBackCopiedRows ==
    (pc = "raised" /\ exc \in TransferErrors) =>
        /\ ~conn.inTx
        /\ Succeeded("commit") = {}
        /\ CommittedNewRows = {}
        /\ db.rows = prev
        /\ (Issued("truncate") # {} => log[Len(log)].op = "rollback")

\* A bulk-copy call failed after an earlier call of the job had copied
\* rows, over a populated table.
C3_Witness ==
    /\ pc = "raised"
    /\ exc = "DataError"
    /\ prev # << >>
    /\ \E i \in Succeeded("copy") : log[i].arg > 0

\* ---------------------------------------------------------------------- C4
\* C4: the truncate and every bulk-copy call are issued in the same
\* transaction with no commit in between, and the committed table is never
\* truncated without holding the job's new rows.
C4_NoCommitBetweenTruncateAndCopy ==
    /\ \A t \in Issued("truncate"), c \in Issued("copy") :
          /\ t < c
          /\ log[t].tx = "load" /\ log[c].tx = "load"
          /\ \A k \in TxBoundaries : ~(t < k /\ k < c)
    /\ (db.rows # prev => (db.rows = NewRows /\ Succeeded("commit") # {}))

\* Inside the transaction the table is truncated and partly copied while
\* the committed table still holds its previous rows.
C4_Witness ==
    /\ pc = "copy"
    /\ conn.inTx /\ conn.truncated
    /\ Succeeded("copy") # {}
    /\ conn.rows # << >> /\ conn.rows # NewRows
    /\ prev # << >> /\ db.rows = prev

\* ---------------------------------------------------------------------- C5
\* C5: a failed re-adding of the primary key is fatal: copy() does not go
\* on to create_fks and analyze and does not return normally.
C5_PkFailureIsFatal ==
    Failed("create_pk") # {} =>
        /\ pc \notin {"create_fks", "analyze", "done"}
        /\ Issued("create_fk") = {}
        /\ Issued("analyze") = {}

\* ---------------------------------------------------------------------- C6
\* C6 as stated, for a job whose source holds rows: when recreating a
\* primary or foreign key fails, the load transaction is not committed and
\* no new row is committed.
C6_RecreateFailureNotCommitted ==
    (NewRows # << >> /\ (Failed("create_pk") # {} \/ Failed("create_fk") # {})) =>
        /\ Succeeded("commit") = {}
        /\ CommittedNewRows = {}

\* C6 amended: when recreating a primary or foreign key fails, the load
\* transaction was committed before the recreation was attempted: the
\* newly loaded rows are and stay committed in the table, and the
\* constraint whose recreation failed is absent.
C6_RecreateFailureAfterCommit ==
    /\ \A i \in Failed("create_pk") \cup Failed("create_fk") :
          /\ \E c \in Succeeded("commit") : c < i
          /\ db.rows = NewRows
          /\ ~conn.inTx
    /\ (Failed("create_pk") # {} => ~db.pk)
    /\ \A i \in Failed("create_fk") : log[i].arg \notin db.fks

\* The primary key could not be re-added over freshly loaded rows.
C6_Witness ==
    /\ Failed("create_pk") # {}
    /\ NewRows # << >>
    /\ db.rows = NewRows

\* ------------------------------------------------ reading the orchestrator
Pooled == wjob # << >>
Sequential == processes.kind = "None"
Ended == opc \in {"raised", "returned"}
JobEnded(j) == wpc[j] \in {"ok", "failed"}
FailedJobs == {j \in Jobs : wpc[j] = "failed"}

\* ---------------------------------------------------------------------- C7
\* C7: in parallel mode every job is started and runs to completion or to
\* its own failure before hdf_to_postgres ends; no job is left unstarted or
\* cut short because a sibling failed; hdf_to_postgres raises exactly when
\* at least one job failed.
C7_AllJobsEndBeforeRaise ==
    (Pooled /\ Ended) =>
        /\ \A j \in Jobs : JobEnded(j) /\ ran_in[j] >= 1
        /\ \A j \in FailedJobs : jexc[j].job = j
        /\ (opc = "raised" <=> FailedJobs # {})

\* One worker process, two jobs: the second job was started after the first
\* had failed, and hdf_to_postgres raised after both.
C7_Witness ==
    /\ Pooled /\ opc = "raised"
    /\ processes.n = 1
    /\ Len(tables) >= 2
    /\ reported[1] = 1 /\ wpc[1] = "failed"
    /\ JobEnded(2) /\ ran_in[2] = 1

\* ---------------------------------------------------------------------- C8
\* C8: in parallel mode the exception hdf_to_postgres raises is the one of
\* the failure that was reported first, whatever the order of the jobs in
\* the list.
C8_FirstReportedFailureIsRaised ==
    (Pooled /\ opc = "raised") =>
        \E i \in DOMAIN reported :
            /\ wpc[reported[i]] = "failed"
            /\ \A k \in 1..(i - 1) : wpc[reported[k]] = "ok"
            /\ surfaced = jexc[reported[i]]

\* Two jobs failed and the second of the list was reported first.
C8_Witness ==
    /\ Pooled /\ opc = "raised"
    /\ Len(reported) >= 2
    /\ reported[1] = 2 /\ reported[2] = 1
    /\ wpc[1] = "failed" /\ wpc[2] = "failed"
    /\ surfaced = jexc[2]

\* ---------------------------------------------------------------------- C9
\* C9: in sequential mode the jobs run one at a time in list order, in the
\* calling process; when a job fails no later job is ever started and the
\* exception hdf_to_postgres raises is that job's.
C9_SequentialStopsAtFirstFailure ==
    Sequential =>
        /\ \A j \in Jobs : wpc[j] # "new" =>
              /\ ran_in[j] = MainProcess
              /\ \A i \in Jobs : i < j => wpc[i] = "ok"
        /\ Cardinality({j \in Jobs : wpc[j] \in {"start", "connected"}}) <= 1
        /\ \A j \in FailedJobs :
              /\ \A i \in Jobs : i > j => wpc[i] = "new"
              /\ opc \in {"seq", "raised"}
              /\ (opc = "raised" => surfaced = jexc[j])
        /\ (opc = "returned" => \A j \in Jobs : wpc[j] = "ok")

\* The first of two jobs failed: its exception was raised and the second
\* job was never started.
C9_Witness ==
    /\ Sequential /\ opc = "raised"
    /\ Len(tables) = 2
    /\ wpc[1] = "failed" /\ wpc[2] = "new"
    /\ surfaced = jexc[1]

\* --------------------------------------------------------------------- C10
\* C10 as stated: with processes None or 1, no worker process is created
\* and no second connection is opened.
C10_OneConnectionNoWorkerProcess ==
    (Sequential \/ (processes.kind = "int" /\ processes.n = 1)) =>
        /\ ~Pooled
        /\ \A j \in Jobs : ran_in[j] \in {NotRun, MainProcess}
        /\ nconn <= 1

\* C10 amended: when processes is None (unspecified) the jobs are executed
\* sequentially in the calling process and no worker process is created;
\* when processes is 1 a Pool of one worker process is created and the jobs
\* run in it.  In both cases every copy_worker call opens a connection of
\* its own, which no other job uses, and at most one connection is open at
\* any time.
C10_SequentialOwnConnections ==
    /\ Sequential =>
          /\ ~Pooled
          /\ \A j \in Jobs : ran_in[j] \in {NotRun, MainProcess}
    /\ (processes.kind = "int" /\ processes.n = 1) =>
          \A j \in Jobs : ran_in[j] \in {NotRun, 1}
    /\ (Sequential \/ (processes.kind = "int" /\ processes.n = 1)) =>
          /\ Cardinality(openc) <= 1
          /\ \A j \in Jobs : wpc[j] = "connected" => jconn[j] \in openc
          /\ \A i, j \in Jobs :
                (i # j /\ jconn[i] # 0) => jconn[i] # jconn[j]

\* Sequential mode: the first job ran in the calling process on the
\* connection it opened, and no Pool exists.
C10_Witness ==
    /\ Sequential /\ opc = "raised"
    /\ Len(tables) = 2
    /\ ran_in[1] = MainProcess
    /\ jconn[1] = 1
    /\ ~Pooled

\* --------------------------------------------------------------------- C11
\* C11: every copy_worker call opens a connection of its own: no two jobs
\* are ever given the same connection, and every open connection is in use
\* by exactly one running job, in the calling process and in the workers of
\* the Pool alike.
C11_OwnConnectionPerCall ==
    /\ \A i, j \in Jobs : (i # j /\ jconn[i] # 0) => jconn[i] # jconn[j]
    /\ \A j \in Jobs : wpc[j] = "connected" => jconn[j] \in openc
    /\ \A c \in openc :
          Cardinality({j \in Jobs : wpc[j] = "connected" /\ jconn[j] = c}) = 1
    /\ \A w1, w2 \in DOMAIN wjob :
          (w1 # w2 /\ wjob[w1] # 0) => wjob[w1] # wjob[w2]

\* Two worker processes each run a job on an open connection at once.
C11_Witness ==
    /\ Pooled
    /\ Len(tables) >= 2
    /\ wpc[1] = "connected" /\ wpc[2] = "connected"
    /\ ran_in[1] # ran_in[2]
    /\ jconn[1] # jconn[2]
    /\ Cardinality(openc) = 2

\* --------------------------------------------------------------------- C12
Running(j) == wpc[j] \in {"start", "connected"}
TablesBuilt == opc \notin {"start", "idle"} /\ calls # << >>

Idle(w) == w \in DOMAIN wjob /\ wjob[w] = 0
Unstarted == {j \in Jobs : wpc[j] = "new"}

\* C13: in parallel mode a task is one job: no worker process holds a job
\* queued behind the one it runs, every unstarted job is on the queue all
\* workers take from, and a worker that is idle while an unstarted job
\* remains is given a job however long the jobs of the other workers run.
C13_OneJobPerTask ==
    /\ [](\A w \in DOMAIN wrest : wrest[w] = << >>)
    /\ [](Pooled => \A j \in Unstarted : InList(j, taskq))
    /\ \A w \in 1..MaxProcs :
          (opc = "join" /\ Idle(w) /\ Unstarted # {})
              ~> (~Idle(w) \/ Unstarted = {})

\* The second job was handed to the second worker process while the first
\* job was still running in the first.
C13_Witness ==
    /\ Pooled /\ opc = "join"
    /\ Len(tables) >= 2
    /\ wjob[1] = 1 /\ Running(1)
    /\ Len(wjob) >= 2 /\ wjob[2] = 2 /\ wpc[2] = "start"
    /\ taskq = << >>

\* --------------------------------------------------------------------- C14
\* C14: a drop of a primary key that does not exist fails inside its own
\* begin_nested() block and is caught: drop_pk returns normally with no
\* transaction left open, and copy() goes on from the same state as after a
\* drop that succeeded; the next statement, the begin of the load
\* transaction, is accepted by the connection.
C14_MissingPkDropIsSkipped ==
    /\ \A i \in Issued("drop_pk") :
          /\ log[i].tx = "nested"
          /\ i < Len(log) => (log[i + 1].op = "begin" /\ log[i + 1].ok)
    /\ (log # << >> /\ log[Len(log)].op = "drop_pk") =>
          /\ pc \in {"begin", "format_df"} \/ exc = "FormatError"
          /\ pc = "raised" <=> exc = "FormatError"
          /\ conn = NoTx
          /\ ~db.pk

\* The primary key was missing, and the job went on to truncate, copy and
\* commit the rows of its source.
C14_Witness ==
    /\ Failed("drop_pk") # {}
    /\ Succeeded("truncate") # {}
    /\ Succeeded("copy") # {}
    /\ Succeeded("commit") # {}
    /\ NewRows # << >>
    /\ db.rows = NewRows

\* --------------------------------------------------------------------- C15
Attempts(op, fk) == {i \in Issued(op) : log[i].arg = fk}

\* C15: once drop_fks has run, every foreign key of the list has been given
\* exactly one drop attempt; once create_fks has been entered, it returns
\* normally with exactly one create attempt made for every foreign key of
\* the list, whichever attempts fail.
C15_EveryFkAttemptedOnce ==
    /\ pc # "drop_fks" =>
          \A fk \in ForeignKeys : Cardinality(Attempts("drop_fk", fk)) = 1
    /\ (Issued("create_fk") # {} \/ pc \in {"analyze", "done"}) =>
          /\ \A fk \in ForeignKeys :
                Cardinality(Attempts("create_fk", fk)) = 1
          /\ exc # "UnboundLocalError"

\* --------------------------------------------------------------------- C16
Ceil(a, b) == (a + b - 1) \div b

RECURSIVE Flatten(_)
Flatten(seqs) ==
    IF seqs = << >> THEN << >> ELSE Head(seqs) \o Flatten(Tail(seqs))

\* The chunk loop is about to take the first chunk df_generator yielded.
JustChunked ==
    /\ pc = "copy"
    /\ job.cls = "DataFrameCopy"
    /\ xfer.sent = << >>

\* C16 as stated: df_generator yields ceil(R / C) chunks whose row counts
\* sum to R.
C16_CeilChunks ==
    JustChunked =>
        /\ Len(xfer.chunks) = Ceil(Len(xfer.df), job.csv_chunksize)
        /\ Len(Flatten(xfer.chunks)) = Len(xfer.df)

\* C16 amended: df_generator yields max(1, ceil(R / C)) chunks, a single
\* empty chunk when R = 0; every chunk has at most C rows and the chunks,
\* in order, are the rows of the frame, so their row counts sum to R.
C16_AtLeastOneChunk ==
    JustChunked =>
        /\ Len(xfer.chunks) =
              Max(1, Ceil(Len(xfer.df), job.csv_chunksize))
        /\ \A i \in DOMAIN xfer.chunks :
              Len(xfer.chunks[i]) <= job.csv_chunksize
        /\ Flatten(xfer.chunks) = xfer.df
        /\ Len(xfer.df) = 0 => xfer.chunks = << << >> >>

\* Three rows in chunks of two: a full chunk and a partial one.
C16_Witness ==
    /\ JustChunked
    /\ Len(xfer.df) = 3
    /\ job.csv_chunksize = 2
    /\ Len(xfer.chunks) = 2
    /\ Len(xfer.chunks[2]) = 1

\* --------------------------------------------------------------------- C17
\* Errors raised by the archive, by a caller's hook or by the database;
\* TypeError and UnboundLocalError are raised by the calls of the code.
EnvironmentErrors ==
    {"IOError", "KeyError", "HookError", "FormatError", "DataError",
     "OperationalError", "SQLAlchemyError"}
Undisturbed == exc \notin EnvironmentErrors

ReadsOf(k) == SelectSeq(xfer.reads, LAMBDA r : r.k = k)

\* Window i (from 0) of a key of n rows: [i * S, min((i + 1) * S, n)).
Windows(k, S) ==
    [i \in 1..Ceil(src[k], S) |->
        Read(k, (i - 1) * S, Min(i * S, src[k]))]

\* C17: a streaming job without formatting hooks that no failure of the
\* archive or of the database has stopped reads, of every one of its keys,
\* the ceil(N / S) windows [i * S, min((i + 1) * S, N)), in order.
C17_WindowsCoverKey ==
    (/\ job.cls = "BigHDFTableCopy"
     /\ job.data_formatters = << >>
     /\ Finished /\ Undisturbed) =>
        \A i \in DOMAIN job.hdf_tables.keys :
            ReadsOf(job.hdf_tables.keys[i])
                = Windows(job.hdf_tables.keys[i], job.hdf_chunksize)

\* --------------------------------------------------------------------- C18
\* C18: for a job of the class hdf_to_postgres builds, the batch read from
\* the archive never holds more than hdf_chunksize rows and no payload
\* handed to copy_from_file holds more than csv_chunksize rows.
C18_MemoryBounded ==
    job.cls = "HDFTableCopy" =>
        /\ Len(xfer.df) <= job.hdf_chunksize
        /\ \A i \in DOMAIN xfer.sent :
              Len(xfer.sent[i].rows) <= job.csv_chunksize

\* --------------------------------------------------------------------- C19
RECURSIVE SentRows(_, _)
SentRows(sent, k) ==
    IF sent = << >> THEN << >>
    ELSE (IF Head(sent).k = k THEN Head(sent).rows ELSE << >>)
         \o SentRows(Tail(sent), k)

\* C19: in direct, sub-chunked and streaming mode alike, a job without
\* formatting hooks that no failure of the archive or of the database has
\* stopped has handed to copy_from_file, for every one of its keys, the
\* rows of the key in source order, none dropped, repeated or moved.
C19_RowsSentInSourceOrder ==
    (/\ job.cls \in BaseClasses
     /\ job.data_formatters = << >>
     /\ Finished /\ Undisturbed) =>
        \A i \in DOMAIN job.hdf_tables.keys :
            SentRows(xfer.sent, job.hdf_tables.keys[i])
                = KeyRows(job.hdf_tables.keys[i])

\* --------------------------------------------------------------------- C20
\* C20: when copy() has returned, the table holds the rows of the job's
\* source keys whatever it held before; after a second copy() of the same
\* job it holds again exactly what the first one left.
C20_SecondRunSameContent ==
    /\ pc = "done" => db.rows = NewRows
    /\ (xfer.again /\ pc = "done") => db.rows = prev

\* The table held a foreign row and the job was run twice over two rows or
\* more.
C20_Witness ==
    /\ xfer.again /\ pc = "done"
    /\ xfer.initial = <<OldRow>>
    /\ Len(NewRows) >= 2
    /\ prev = NewRows
    /\ db.rows = NewRows

\* --------------------------------------------------------------------- C21
Before(A, B) == \A i \in A, j \in B : i < j
HasKeys == ~job.hdf_tables.isNone /\ job.hdf_tables.keys # << >>

\* The statements of a copy() that returned, in the order of copy(), each
\* of drop_pk, truncate, commit, create_pk and analyze issued once.
OrderedOnce ==
    /\ Before(ConstraintDrops, Issued("begin"))
    /\ Before(Issued("begin"), Issued("truncate"))
    /\ Before(Issued("truncate"), Issued("copy") \cup Issued("commit"))
    /\ Before(Issued("copy"), Issued("commit"))
    /\ Before(Issued("commit"), ConstraintCreates \cup Issued("analyze"))
    /\ Before(ConstraintCreates, Issued("analyze"))
    /\ \A op \in {"drop_pk", "begin", "truncate", "commit", "create_pk",
                   "analyze"} : Cardinality(Issued(op)) = 1
    /\ Issued("rollback") = {}
    /\ \A i \in Issued("analyze") : log[i].tx = "auto"

\* C21 as stated: a copy() that returned has issued, in this order, the
\* constraint drops, the truncate, one or more bulk copies, the commit, the
\* constraint creations and analyze.
C21_OneOrMoreCopies ==
    pc = "done" => (OrderedOnce /\ Issued("copy") # {})

\* C21 amended: a copy() that returned has issued, in this order, the
\* constraint drops, the truncate, the bulk copies, the commit, the
\* constraint creations and analyze, with the primary-key drop, the
\* primary-key creation and analyze issued once each and analyze outside the
\* load transaction; there is at least one bulk copy when the job has rows
\* to load and none when its key list is None or empty.
C21_OrderOfASuccessfulCopy ==
    pc = "done" =>
        /\ OrderedOnce
        /\ NewRows # << >> => Issued("copy") # {}
        /\ ~HasKeys => Issued("copy") = {}

\* A copy() that returned after two bulk copies, with the primary key
\* dropped and created again.
C21_Witness ==
    /\ pc = "done"
    /\ Cardinality(Issued("copy")) >= 2
    /\ Succeeded("drop_pk") # {}
    /\ Succeeded("create_pk") # {}
    /\ db.pk

\* --------------------------------------------------------------------- C22
RECURSIVE SumRows(_)
SumRows(keys) ==
    IF keys = << >> THEN 0 ELSE src[Head(keys)] + SumRows(Tail(keys))

\* hdf_to_pg has returned.
TransferComplete ==
    \/ pc = "tx_exit" /\ exc = NoExc
    \/ Issued("commit") # {}

\* Keys the job has started on, in order.
KeysBegun ==
    IF job.cls = "BigHDFTableCopy"
    THEN SubSeq(job.hdf_tables.keys, 1, xfer.k)
    ELSE [i \in DOMAIN xfer.reads |-> xfer.reads[i].k]

\* C22: in direct, sub-chunked and streaming mode the counter of a job that
\* started at 0 is the sum of the row counts of the keys read so far, and
\* of all the job's keys when the transfer has completed.
C22_RowCounterIsSumOfKeys ==
    job.cls \in BaseClasses =>
        /\ TransferComplete => job.rows = SumRows(job.hdf_tables.keys)
        /\ (job.cls # "BigHDFTableCopy"
              \/ pc \in {"next_window", "read", "format", "generator", "copy"})
             => job.rows = SumRows(KeysBegun)

\* A direct-mode transfer of two keys with rows has completed.
C22_Witness ==
    /\ job.cls = "SmallHDFTableCopy"
    /\ TransferComplete
    /\ Len(job.hdf_tables.keys) = 2
    /\ src[1] > 0 /\ src[2] > 0
    /\ job.rows = src[1] + src[2]

\* --------------------------------------------------------------------- C23
\* C23 as stated: every bulk-copy call of a job names the column list of
\* the job's first call.
C23_ColumnListOfFirstCall ==
    \A i \in DOMAIN xfer.lists : xfer.lists[i] = xfer.lists[1]

\* C23 amended: a bulk-copy call of an HDF job names the column list read
\* from the header line of the payload it sends, which is the column list of
\* the frame of the key the chunk was cut from; a bulk-copy call of a
\* DataFrameCopy names the column list the job took from its frame when it
\* was constructed.
C23_ColumnListOfEachPayload ==
    /\ Len(xfer.lists) = Len(xfer.sent)
    /\ \A i \in DOMAIN xfer.lists :
          xfer.lists[i] = IF job.cls = "DataFrameCopy"
                          THEN job.columns
                          ELSE cols[xfer.sent[i].k]

\* Two keys with frames of different columns were copied with different
\* column lists.
C23_Witness ==
    /\ job.cls = "SmallHDFTableCopy"
    /\ pc = "done"
    /\ Len(xfer.lists) = 2
    /\ xfer.lists[1] # xfer.lists[2]
    /\ cols[1] # cols[2]

\* ---------------------------------------------------------------- C24
\* The calls made on the batch of read b, in the order they were made.
CallsOf(b) == SelectSeq(xfer.hooked, LAMBDA c : c.batch = b)

\* The formatting of the batch of read b is over.
Formatted(b) == b < Len(xfer.reads) \/ pc # "format"

\* C24 (as stated, for a caller whose keywords do not use a name the job
\* itself passes): for every batch read from the source whose formatting is
\* over and in which no hook raised, every hook of the list was called
\* exactly once, in list order, on the batch the previous hook returned and
\* with the job as context, and every keyword the caller supplied reached
\* every hook with its value unchanged.
C24_EveryHookCalledOnceInOrder ==
    (/\ job.cls # "DataFrameCopy"
     /\ xfer.supplied \in {{}, {<<"level", 0>>}}
     /\ exc # "HookError")
    => \A b \in 1..Len(xfer.reads) :
         Formatted(b) =>
           /\ Len(CallsOf(b)) = Len(job.data_formatters)
           /\ \A i \in 1..Len(CallsOf(b)) :
                /\ CallsOf(b)[i].f = job.data_formatters[i]
                /\ CallsOf(b)[i].df = SubSeq(job.data_formatters, 1, i - 1)
                /\ CallsOf(b)[i].copy_obj
                /\ xfer.supplied \subseteq CallsOf(b)[i].kwargs

\* ---------------------------------------------------------------- C25
\* The HDFMetadata object is built.
CatalogBuilt == opc # "construct" /\ surfaced # Error("IOError", 0)

\* The key has a metadata block under the attribute name the catalog was
\* given, and the block names a destination table.
Named(key) ==
    /\ meta.metadata_attr
    /\ meta.attrs[KeyIndex(key)].block
    /\ Truthy(meta.attrs[KeyIndex(key)].sql_table_name)

CatalogKeys == {meta.keys[i] : i \in DOMAIN meta.keys}
Mapped == UNION {meta.sql_to_hdf[n].hdf_tables : n \in DOMAIN meta.sql_to_hdf}
LookupErrors == {Error("KeyError", 0), Error("AttributeError", 0)}

\* A key of the catalog is in the mapping iff it is Named, under the
\* destination its block names, and building the mapping raises nothing.
MappingIsTheNamedKeys ==
    /\ surfaced \notin LookupErrors
    /\ CatalogBuilt =>
          /\ Mapped = {k \in CatalogKeys : Named(k)}
          /\ \A n \in DOMAIN meta.sql_to_hdf :
                meta.sql_to_hdf[n].hdf_tables =
                  {k \in CatalogKeys :
                     /\ Named(k)
                     /\ meta.attrs[KeyIndex(k)].sql_table_name
                          = meta.sql_to_hdf[n].sql_table}

\* C25 (as stated): the mapping holds exactly the keys with a metadata
\* block that names a destination; a key without is left out of every key
\* set, no error is raised, and no job of the orchestrator refers to it.
C25_ExcludedKeysHaveNoJob ==
    /\ MappingIsTheNamedKeys
    /\ CatalogBuilt => surfaced # Error("ValueError", 0)
    /\ TablesBuilt =>
          \A j \in Jobs : \A k \in CatalogKeys :
              ~Named(k) => /\ k \notin tables[j].hdf_tables
                           /\ tables[j].sql_table # k

\* C25 (amended): the mapping holds exactly the keys of the catalog's key
\* list that have a metadata block naming a destination, and building it
\* raises no lookup error. Given a non-empty mapping, hdf_to_postgres builds
\* no job whose key set holds another key. Given an empty mapping it raises
\* ValueError when called without a key list, and with a key list builds
\* one job per listed key, named after the key.
C25_NonEmptyMappingExcludesKeys ==
    /\ MappingIsTheNamedKeys
    /\ (TablesBuilt /\ meta.sql_to_hdf # << >>) =>
          \A j \in Jobs : tables[j].hdf_tables \subseteq Mapped
    /\ (CatalogBuilt /\ meta.sql_to_hdf = << >>
           /\ opc \notin {"constructed", "start"}) =>
          IF args.keys = << >>
          THEN surfaced = Error("ValueError", 0) /\ tables = << >>
          ELSE TablesBuilt =>
                 /\ Len(tables) = Len(args.keys)
                 /\ \A j \in Jobs : tables[j].sql_table = args.keys[j]

\* A catalog over a key without a block and a key with a named block has
\* been handed to an orchestrator run that has ended.
C25_Witness ==
    /\ CatalogBuilt
    /\ TablesBuilt
    /\ Ended
    /\ \E k \in CatalogKeys : ~meta.attrs[KeyIndex(k)].block
    /\ \E k \in CatalogKeys : Named(k)

\* ---------------------------------------------------------------- C26
\* A job whose key set is None reads nothing, issues no bulk copy, and
\* raises no error of the transfer.
NoneJobIsNoOp ==
    job.hdf_tables.isNone =>
        /\ Issued("copy") = {}
        /\ xfer.reads = << >>
        /\ exc \notin TransferErrors

CatalogTablesHaveKeys ==
    CatalogBuilt =>
        \A n \in DOMAIN meta.sql_to_hdf : meta.sql_to_hdf[n].hdf_tables # {}

\* C26 (as stated): every destination of the catalog mapping and every job
\* built by hdf_to_postgres has at least one source key; a job whose key set
\* is None issues no bulk copy and raises no error.
C26_EveryJobHasAKey ==
    /\ CatalogTablesHaveKeys
    /\ TablesBuilt => \A j \in Jobs : tables[j].hdf_tables # {}
    /\ NoneJobIsNoOp

\* C26 (amended): every destination of the catalog mapping has at least one
\* source key, and so has every job hdf_to_postgres builds when it is given
\* a key list; given no key list it builds one job per entry of the mapping
\* with the entry's key set as it is, empty or not. A job whose key set is
\* None reads nothing, issues no bulk copy and raises no error of the
\* transfer; when its copy() returns the table has been truncated.
C26_JobsOfAKeyListHaveAKey ==
    /\ CatalogTablesHaveKeys
    /\ (TablesBuilt /\ Truthy(args.keys)) =>
          \A j \in Jobs : tables[j].hdf_tables # {}
    /\ (TablesBuilt /\ ~Truthy(args.keys)) =>
          /\ Len(tables) = Len(args.sql_to_hdf.items)
          /\ \A j \in Jobs :
                tables[j].hdf_tables = args.sql_to_hdf.items[j].hdf_tables
    /\ NoneJobIsNoOp
    /\ (job.hdf_tables.isNone /\ pc = "done") =>
          /\ Succeeded("truncate") # {}
          /\ db.rows = << >>

\* copy() of a job whose key set is None has returned.
C26_Witness ==
    /\ job.hdf_tables.isNone
    /\ pc = "done"
    /\ Succeeded("commit") # {}

\* ---------------------------------------------------------------- C27
IsHeader(line) == Len(line) = Len(HeaderLine)

\* The rows of all payloads handed to copy_from_file, in order.
AllSentRows == Flatten([i \in DOMAIN xfer.sent |-> xfer.sent[i].rows])

\* C27: in every bulk-copy call the stream and the COPY statement agree on
\* the header: no header line of column names is ever stored as a row of the
\* table, in the open transaction or committed, and no data row is skipped
\* as a header: while no call has failed, the rows copied since the truncate
\* are exactly the rows of the payloads sent.
C27_HeaderNeverARow ==
    /\ \A i \in DOMAIN conn.rows : ~IsHeader(conn.rows[i])
    /\ \A i \in DOMAIN db.rows : ~IsHeader(db.rows[i])
    /\ (conn.inTx /\ conn.truncated /\ exc = NoExc) =>
          conn.rows = AllSentRows

\* An HDF job has committed rows that went through two bulk-copy calls.
C27_Witness ==
    /\ job.cls = "SmallHDFTableCopy"
    /\ pc = "done"
    /\ Cardinality(Succeeded("copy")) = 2
    /\ db.rows = AllSentRows
    /\ db.rows # << >>

\* ---------------------------------------------------------------- C28
\* C28: a deferred job that copy_worker received is completed in the worker
\* before it is run: a call that has ended either never reached the job
\* (the connection failed, or the table does not exist: ValueError), or it
\* attached the connection and the schema descriptor to the job and then
\* ran copy(), so that it ended normally or with an error of copy();
\* no call ends in the completing step.
C28_CompletedBeforeCopy ==
    \A j \in Jobs :
        JobEnded(j) =>
            jexc[j] \in {NoError, Error("CopyError", j),
                         Error("ValueError", j), Error("OperationalError", j)}

\* ---------------------------------------------------------------- C29
\* C29: a copy_worker call that does not find the job's table in the
\* reflected schema raises ValueError, and it does so before the job is
\* completed or run: copy() is not called, no statement is issued for the
\* job, and the table and its constraints are as they were.
C29_MissingTableRaisesFirst ==
    \A j \in Jobs :
        wloc[j].table_obj = "None" =>
            /\ jexc[j] = Error("ValueError", j)
            /\ wpc[j] = "failed"
            /\ ~wloc[j].copy_called
            /\ log = << >>
            /\ db.rows = prev /\ db.pk /\ db.fks = {}

\* A call of a run over two jobs did not find its table; the run has ended
\* and the other job's call found its table.
C29_Witness ==
    /\ Ended
    /\ \E j \in Jobs : wloc[j].table_obj = "None"
    /\ \E j \in Jobs : wloc[j].table_obj = "Table"

\* ---------------------------------------------------------------- C30
\* The job was still in its load transaction when it ended: an exception
\* left the with block and the transaction was rolled back, or the commit
\* that closes the block failed.
AbortedInTransaction == Issued("rollback") # {} \/ Failed("commit") # {}

\* C30: a job that aborts inside its truncate-and-copy transaction ends
\* there: create_pk, create_fks and analyze are never called, the table
\* holds the rows it held when the job started, and the primary key and the
\* foreign keys of the job, dropped before the transaction, are missing.
C30_AbortLeavesConstraintsDropped ==
    AbortedInTransaction =>
        /\ pc = "raised"
        /\ exc # NoExc
        /\ ConstraintCreates = {}
        /\ Issued("analyze") = {}
        /\ db.rows = prev
        /\ ~db.pk
        /\ db.fks \cap ForeignKeys = {}

\* A job dropped a primary key and a foreign key that existed, truncated a
\* table that held a row, copied rows and then aborted.
C30_Witness ==
    /\ Issued("rollback") # {}
    /\ Succeeded("drop_pk") # {}
    /\ Succeeded("drop_fk") # {}
    /\ Succeeded("truncate") # {}
    /\ Succeeded("copy") # {}
    /\ prev # << >>

\* ---------------------------------------------------------------- C31
\* hdf_to_postgres was called with keys and without a mapping.
KeysOnly == Truthy(args.keys) /\ ~DictTruthy(args.sql_to_hdf)

\* C31: when hdf_to_postgres is called with keys and no sql_to_hdf mapping,
\* the job list holds exactly one job per key k of keys, in the order of
\* keys, whose destination table is k and whose source-key set is {k}.
C31_OneJobPerKeyReadingThatKey ==
    (TablesBuilt /\ KeysOnly) =>
        /\ Len(tables) = Len(args.keys)
        /\ \A j \in Jobs :
              /\ tables[j].sql_table = args.keys[j]
              /\ tables[j].hdf_tables = {args.keys[j]}

\* ---------------------------------------------------------------- C32
\* copy() is running.
CopyRunning == pc \notin {"idle", "done", "raised"}

\* A parallel call in which no job is left to run or running.
ParallelJobsOver ==
    /\ processes.kind = "int"
    /\ opc \in {"pool", "join"}
    /\ \A j \in Jobs : JobEnded(j)

\* C32: over sources of finitely many rows and with chunk sizes of at least
\* 1, a copy() that is running ends, returning or raising, so its window and
\* chunk loops terminate; and a parallel hdf_to_postgres call all of whose
\* jobs have finished or failed returns or raises, whether or not a job has
\* failed.
C32_LoopsEndAndPoolReturns ==
    /\ CopyRunning ~> Finished
    /\ ParallelJobsOver ~> Ended

\* A parallel call over two jobs, one of which failed, has raised.
C32_Witness ==
    /\ processes.kind = "int"
    /\ opc = "raised"
    /\ Cardinality(Jobs) = 2
    /\ \A j \in Jobs : JobEnded(j)
    /\ FailedJobs # {}

====
